---- MODULE Spec2Model ----
(***************************************************************************)
(* A model of the EdgeSearch sharded inverted index (workers/api):         *)
(*   - the posting-shard store and the document delta update               *)
(*     (data/keyword_shard.rs, data/document.rs, http/documents.rs),       *)
(*   - the bulk reader and the durable reader actor                        *)
(*     (data/bulk.rs, durable/reader.rs),                                  *)
(*   - the length-prefixed framing codec (data/encoding.rs),               *)
(*   - the query executor (lexer/lexer.rs).                                *)
(* The KV store is an external collaborator: it is modelled as a partial   *)
(* function from keys to values whose get and put are atomic.              *)
(***************************************************************************)
EXTENDS Integers, Sequences, FiniteSets, TLC

VARIABLES
  \* ---- the KV namespace and the configuration
  kv,          \* partial function: KV key -> stored value
  n_shards,    \* env N_SHARDS (get_n_shards)
  hashOf,      \* doc-id -> be_u32(sha256(doc-id)[0..4])
  \* ---- document requests (one per writer)
  writers,     \* the requests that may run
  pc,          \* writer -> position in its handler
  self_doc,    \* writer -> the in-memory Document (self in Document::update)
  old_kw,      \* writer -> old_keywords of the running update
  futs,        \* writer -> keyword -> the removal/addition future of that keyword
  started,     \* number of document requests started so far
  \* ---- one in-memory shard and the calls made on it
  sh,          \* the KeywordShardData object (self in add_document/remove_document)
  sh_calls,    \* the calls made on sh so far, each with what it did
  sh_in,       \* the remaining calls to make on sh
  \* ---- one search query (QueryLexer)
  q_pc,        \* position of the query: "none", "loaded", "done"
  q_ast,       \* QueryLexer.ast
  kw_cache,    \* QueryLexer.kw_cache: keyword -> [(doc-id, score)]
  q_result,    \* QueryLexer.result, the running result
  q_ret,       \* what filter_documents_on_query returned for the whole AST
  q_log,       \* one entry per AST node evaluated, in order of completion
  q_calls,     \* the keywords merge_keyword_shards was called with, in order
  q_rows,      \* the Vec<SearchResultRow> that QueryLexer::query returned
  \* ---- one bulk read (BulkReader) and the durable reader requests it makes
  b_pc,        \* position of the bulk read: "none", "start", "waiting", "done"
  b_type,      \* read_type: "/keywords" or "/documents"
  b_keys,      \* kv_keys
  b_reqs,      \* the request bodies dispatched to the durable reader, one per chunk
  b_resps,     \* the durable reader's response to each request, once handled
  b_out,       \* what the bulk read returned, or that it panicked
  b_gets,      \* KV gets issued by the bulk reader itself
  b_calls,     \* fetches of the durable reader issued by the bulk reader
  \* ---- one run of the framing codec
  c_pc,        \* "none", "encode", "decode", "done"
  c_xs,        \* the payloads to frame
  c_buf,       \* the framed buffer
  c_out,       \* what read_length_prefixed returned, or that it panicked
  \* ---- the keyword endpoint
  g_resp,      \* the last response of handle_get_keyword
  \* ---- one request to the search endpoint, up to the start of the query
  p_pc,        \* "none", "request", "tokenized", "parsed", "done"
  p_query,     \* the query string, a sequence of characters
  p_tokens,    \* what StringTokenizer::tokenize returned
  p_ast,       \* what StringTokenizer::parse returned
  p_resp,      \* the outcome of handle_search
  p_printed,   \* ast_str, the AST as QueryLexer::query formats it for the log
  \* ---- one request to the router
  a_pc,        \* "none", "request", "checked", "done"
  a_key,       \* the API_KEY variable of the environment, or that it is not set
  a_req,       \* the request: its route and its X-API-Key header
  a_auth,      \* what check_auth returned
  a_resp,      \* the response, and whether the route's handler ran
  \* ---- the client library
  cl_expr,     \* the QueryExpr the client searches with
  \* ---- cancellation by the host
  cancelled    \* the update the host cancelled, and whether it has been retried

docVars == <<writers, pc, self_doc, old_kw, futs, started>>
shVars == <<sh, sh_calls, sh_in>>
qVars == <<q_pc, q_ast, kw_cache, q_result, q_ret, q_log, q_rows, q_calls>>
bVars == <<b_pc, b_type, b_keys, b_reqs, b_resps, b_out, b_gets, b_calls>>
cVars == <<c_pc, c_xs, c_buf, c_out>>
gVars == <<g_resp>>
pVars == <<p_pc, p_query, p_tokens, p_ast, p_resp, p_printed>>
aVars == <<a_pc, a_key, a_req, a_auth, a_resp>>
clVars == <<cl_expr>>
xVars == <<cancelled>>

vars == <<kv, n_shards, hashOf, docVars, shVars, qVars, bVars, cVars, gVars, pVars, aVars, clVars, xVars>>

(***************************************************************************)
(* Bounds and value sets of the model.                                     *)
(***************************************************************************)
MaxUpdates == 2     \* requests a single writer issues, one after the other
MaxRequests == 2    \* requests concurrent writers issue altogether
MaxCalls == 2       \* calls made on one in-memory shard object
MaxNodes == 5       \* nodes of a query AST
MaxChunks == 3      \* chunks of a bulk read of keyword shards
MaxPayloads == 3    \* payloads framed into one buffer
MaxQueryLen == 4    \* characters of an arbitrary query string
MaxTokens == 6      \* tokens of a sentence of the query grammar
MaxSearchNodes == 3 \* nodes of the AST of a search over the documents written

Writers == {1, 2}

Docs == {"d1", "d2"}
Keywords == {"a", "b"}
Scores == {1, 2}
\* sample SHA-256 prefixes: d1 and d2 fall into one shard, or into two
HashTables == {[d \in Docs |-> IF d = "d1" THEN 1 ELSE 49],
               [d \in Docs |-> IF d = "d1" THEN 1 ELSE 50]}

DEFAULT_N_SHARDS == 48

NotFound == [found |-> FALSE]

Range(s) == {s[i] : i \in 1..Len(s)}

(***************************************************************************)
(* Keys.  index is a single fixed index name; a key is the tuple of the    *)
(* components that the format! strings join with ':'.                      *)
(***************************************************************************)
document_kv_key(uuid) == <<"document", uuid>>

keyword_shard_kv_key(keyword, shard) == <<"kw", keyword, shard>>

\* the hash prefix taken as the shard number, without the reduction
ShardNotReduced(doc_id, num_shards) == hashOf[doc_id]

shard_from_document_id(doc_id, num_shards) == hashOf[doc_id] % num_shards

KvGet(store, key) == IF key \in DOMAIN store THEN store[key] ELSE NotFound

\* a put that keeps the postings already stored under a shard key
KvPutKeepsPostings(store, key, value) ==
  LET merged ==
        IF key[1] = "kw" /\ key \in DOMAIN store
          THEN [value EXCEPT !.docs =
                  store[key].docs
                    \o SelectSeq(@, LAMBDA e : \A i \in 1..Len(store[key].docs) :
                                                  store[key].docs[i][1] # e[1])]
          ELSE value
  IN [k \in (DOMAIN store) \cup {key} |-> IF k = key THEN merged ELSE store[k]]

KvPut(store, key, value) == [k \in (DOMAIN store) \cup {key} |->
                               IF k = key THEN value ELSE store[k]]

(***************************************************************************)
(* KeywordShardData: the shard record and its two mutators.  Each returns  *)
(* the mutated object and whether it awaits a write of it.                 *)
(***************************************************************************)
\* worker::Date::now() read by the holder of a shard stamped ts: a later time
Now(ts) == ts + 1

NewShard(keyword, shard) ==
  [found |-> TRUE, keyword |-> keyword, shard |-> shard, ts |-> Now(0), docs |-> <<>>]

HasDoc(docs, doc_id) == \E i \in 1..Len(docs) : docs[i][1] = doc_id

CountDoc(docs, doc_id) == Cardinality({i \in 1..Len(docs) : docs[i][1] = doc_id})

AddAlways(s, doc_id, score) ==
  [shard |-> [s EXCEPT !.docs = Append(@, <<doc_id, score>>), !.ts = Now(@)],
   write |-> TRUE]

AddOverwrite(s, doc_id, score) ==
  [shard |-> [s EXCEPT !.docs =
                Append(SelectSeq(@, LAMBDA e : e[1] # doc_id), <<doc_id, score>>),
              !.ts = Now(@)],
   write |-> TRUE]

add_document(s, doc_id, score) ==
  IF ~HasDoc(s.docs, doc_id)
    THEN [shard |-> [s EXCEPT !.docs = Append(@, <<doc_id, score>>), !.ts = Now(@)],
          write |-> TRUE]
    ELSE [shard |-> s, write |-> FALSE]

RemoveNothing(s, doc_id) == [shard |-> s, write |-> FALSE]

RemoveAlwaysWrites(s, doc_id) ==
  [shard |-> [s EXCEPT !.docs = SelectSeq(@, LAMBDA e : e[1] # doc_id), !.ts = Now(@)],
   write |-> TRUE]

remove_document(s, doc_id) ==
  LET original_len == Len(s.docs)
      kept == SelectSeq(s.docs, LAMBDA e : e[1] # doc_id)
  IN IF Len(kept) # original_len
       THEN [shard |-> [s EXCEPT !.docs = kept, !.ts = Now(@)], write |-> TRUE]
       ELSE [shard |-> [s EXCEPT !.docs = kept], write |-> FALSE]

(***************************************************************************)
(* Document: keyword lists and the delta of an update.                     *)
(***************************************************************************)
\* the scores an extraction draws from: concurrent requests all extract one score
ExtractScores == IF Cardinality(writers) > 1 THEN {1} ELSE Scores

KwPairs == Keywords \X ExtractScores

\* what the extractor can return: (keyword, score) pairs, best score first, no
\* keyword twice (yake get_n_best with remove_duplicates)
KeywordLists ==
  {<<>>} \cup {<<p>> : p \in KwPairs}
         \cup {pq \in KwPairs \X KwPairs : pq[1][1] # pq[2][1] /\ pq[1][2] >= pq[2][2]}

KwSet(kws) == {kws[i][1] : i \in 1..Len(kws)}

KwRemovedSwapped(old_keywords, new_keywords) == KwSet(new_keywords) \ KwSet(old_keywords)

kw_removed(old_keywords, new_keywords) == KwSet(old_keywords) \ KwSet(new_keywords)

NewDocument(id) == [found |-> TRUE, uuid |-> id, revision |-> 0, keywords |-> <<>>]

RevisionKept(revision) == revision

\* self.revision += 1
RevisionIncremented(revision) == revision + 1

NoFutures == [k \in {} |-> 0]

\* the removal futures and the addition futures an update creates; a future keeps
\* its shard object (local) and, for the record, the shard as it loaded it (base)
Futures(old_keywords, new_keywords) ==
  [k \in kw_removed(old_keywords, new_keywords) \cup KwSet(new_keywords) |->
     IF k \in KwSet(new_keywords)
       THEN [kind |-> "add", st |-> "init", local |-> NotFound, base |-> NotFound,
             score |-> (CHOOSE e \in Range(new_keywords) : e[1] = k)[2]]
       ELSE [kind |-> "remove", st |-> "init", local |-> NotFound, base |-> NotFound,
             score |-> 0]]

RemovalsDone(p) ==
  \A k \in DOMAIN futs[p] : futs[p][k].kind = "remove" => futs[p][k].st = "done"

AllDone(p) == \A k \in DOMAIN futs[p] : futs[p][k].st = "done"

\* every future may be polled as soon as it exists
RunnableInAnyOrder(p, k) ==
  /\ pc[p] = "shards"
  /\ k \in DOMAIN futs[p]

\* a future may be polled: removals first, additions once join_all(removals) is over
Runnable(p, k) ==
  /\ pc[p] = "shards"
  /\ k \in DOMAIN futs[p]
  /\ futs[p][k].kind = "add" => RemovalsDone(p)

ShardKeyOf(p, k) ==
  keyword_shard_kv_key(k, shard_from_document_id(self_doc[p].uuid, n_shards))

\* the shard mutation of a future on its loaded shard, and where the future goes next
Mutate(f, s, doc_id) ==
  LET r == IF f.kind = "add" THEN add_document(s, doc_id, f.score)
                             ELSE remove_document(s, doc_id)
  IN [f EXCEPT !.local = r.shard, !.base = s, !.st = IF r.write THEN "put" ELSE "done"]

(***************************************************************************)
(* Document handlers.                                                      *)
(***************************************************************************)
RequestLimit == IF Cardinality(writers) > 1 THEN MaxRequests ELSE MaxUpdates

\* a request slot is free, and the slots are taken in order
CanStart(p) ==
  /\ p \in writers
  /\ pc[p] \in {"idle", "done", "rejected"}
  /\ \A q \in writers : q < p => pc[q] # "idle"
  /\ started < RequestLimit

\* handle_add_document: POST /:index/doc/:id
HandleAddDocument(p, d) ==
  /\ CanStart(p)
  /\ started' = started + 1
  /\ IF KvGet(kv, document_kv_key(d)).found
       THEN /\ pc' = [pc EXCEPT ![p] = "rejected"]
            /\ UNCHANGED <<self_doc, old_kw, futs>>
       ELSE /\ pc' = [pc EXCEPT ![p] = "update"]
            /\ self_doc' = [self_doc EXCEPT ![p] = NewDocument(d)]
            /\ old_kw' = [old_kw EXCEPT ![p] = <<>>]
            /\ futs' = [futs EXCEPT ![p] = NoFutures]
  /\ UNCHANGED <<kv, n_shards, hashOf, writers, shVars, qVars, bVars, cVars, gVars, xVars, clVars, aVars, pVars>>

\* handle_update_document: PATCH /:index/doc/:id
HandleUpdateDocument(p, d) ==
  /\ CanStart(p)
  /\ started' = started + 1
  /\ IF ~KvGet(kv, document_kv_key(d)).found
       THEN /\ pc' = [pc EXCEPT ![p] = "rejected"]
            /\ UNCHANGED <<self_doc, old_kw, futs>>
       ELSE /\ pc' = [pc EXCEPT ![p] = "update"]
            /\ self_doc' = [self_doc EXCEPT ![p] = KvGet(kv, document_kv_key(d))]
            /\ old_kw' = [old_kw EXCEPT ![p] = <<>>]
            /\ futs' = [futs EXCEPT ![p] = NoFutures]
  /\ UNCHANGED <<kv, n_shards, hashOf, writers, shVars, qVars, bVars, cVars, gVars, xVars, clVars, aVars, pVars>>

\* Document::update up to and including self.write(): extract, diff, rev += 1, put
UpdateWrite(p, new_keywords) ==
  /\ p \in writers
  /\ pc[p] = "update"
  /\ LET old_keywords == self_doc[p].keywords
         doc == [self_doc[p] EXCEPT !.keywords = new_keywords,
                                    !.revision = RevisionIncremented(@)]
     IN /\ old_kw' = [old_kw EXCEPT ![p] = old_keywords]
        /\ self_doc' = [self_doc EXCEPT ![p] = doc]
        /\ kv' = KvPut(kv, document_kv_key(doc.uuid), doc)
        /\ futs' = [futs EXCEPT ![p] = Futures(old_keywords, new_keywords)]
  /\ pc' = [pc EXCEPT ![p] = "shards"]
  /\ UNCHANGED <<n_shards, hashOf, writers, started, shVars, qVars, bVars, cVars, gVars, xVars, clVars, aVars, pVars>>

\* KeywordShardData::from_keyword, the read; on a hit the future goes on to its
\* add_document / remove_document up to the await of its write
FromKeywordRead(p, k) ==
  /\ Runnable(p, k)
  /\ futs[p][k].st = "init"
  /\ LET got == KvGet(kv, ShardKeyOf(p, k))
     IN futs' = [futs EXCEPT ![p][k] =
                   IF got.found THEN Mutate(@, got, self_doc[p].uuid)
                                ELSE [@ EXCEPT !.st = "create"]]
  /\ UNCHANGED <<kv, n_shards, hashOf, writers, pc, self_doc, old_kw, started, shVars, qVars, bVars, cVars, gVars, xVars, clVars, aVars, pVars>>

\* KeywordShardData::from_keyword, the miss: write a fresh empty shard, then go on
FromKeywordCreate(p, k) ==
  /\ Runnable(p, k)
  /\ futs[p][k].st = "create"
  /\ LET fresh == NewShard(k, shard_from_document_id(self_doc[p].uuid, n_shards))
     IN /\ kv' = KvPut(kv, ShardKeyOf(p, k), fresh)
        /\ futs' = [futs EXCEPT ![p][k] = Mutate(@, fresh, self_doc[p].uuid)]
  /\ UNCHANGED <<n_shards, hashOf, writers, pc, self_doc, old_kw, started, shVars, qVars, bVars, cVars, gVars, xVars, clVars, aVars, pVars>>

\* the self.write(store) that ends add_document / remove_document
ShardWrite(p, k) ==
  /\ Runnable(p, k)
  /\ futs[p][k].st = "put"
  /\ kv' = KvPut(kv, ShardKeyOf(p, k), futs[p][k].local)
  /\ futs' = [futs EXCEPT ![p][k].st = "done"]
  /\ UNCHANGED <<n_shards, hashOf, writers, pc, self_doc, old_kw, started, shVars, qVars, bVars, cVars, gVars, xVars, clVars, aVars, pVars>>

\* Document::update when the put of the document fails: self.write(&store).await?
\* returns the Err before any future is created
UpdateWriteErr(p) ==
  /\ p \in writers
  /\ pc[p] = "update"
  /\ pc' = [pc EXCEPT ![p] = "failed"]
  /\ UNCHANGED <<kv, n_shards, hashOf, writers, self_doc, old_kw, futs, started, shVars, qVars,
                 bVars, cVars, gVars, xVars, clVars, aVars, pVars>>

\* KeywordShardData::from_keyword when the KV read fails: found_shard is an Err,
\* as on a miss, and the else branch goes on to create the shard
FromKeywordReadErr(p, k) ==
  /\ Runnable(p, k)
  /\ futs[p][k].st = "init"
  /\ futs' = [futs EXCEPT ![p][k].st = "create"]
  /\ UNCHANGED <<kv, n_shards, hashOf, writers, pc, self_doc, old_kw, started, shVars, qVars,
                 bVars, cVars, gVars, xVars, clVars, aVars, pVars>>

\* KeywordShardData::from_keyword when the write of the fresh shard fails:
\* shard.write(&store).await? returns the Err, and .ok().unwrap() in the future
\* panics, which ends the request
FromKeywordCreateErr(p, k) ==
  /\ Runnable(p, k)
  /\ futs[p][k].st = "create"
  /\ pc' = [pc EXCEPT ![p] = "panicked"]
  /\ UNCHANGED <<kv, n_shards, hashOf, writers, self_doc, old_kw, futs, started, shVars, qVars,
                 bVars, cVars, gVars, xVars, clVars, aVars, pVars>>

\* the self.write(store) of add_document / remove_document fails: the Err goes to
\* unwrap_or_else, which logs it
ShardWriteErr(p, k) ==
  /\ Runnable(p, k)
  /\ futs[p][k].st = "put"
  /\ futs' = [futs EXCEPT ![p][k].st = "done"]
  /\ UNCHANGED <<kv, n_shards, hashOf, writers, pc, self_doc, old_kw, started, shVars, qVars,
                 bVars, cVars, gVars, xVars, clVars, aVars, pVars>>

\* the update of request p has completed
Completed(p) == pc[p] = "done"

\* no request is running
Quiescent == \A p \in writers : pc[p] \in {"idle", "done", "rejected"}

\* both join_all are over: the futures are dropped, Ok(self.revision)
UpdateReturn(p) ==
  /\ p \in writers
  /\ pc[p] = "shards"
  /\ AllDone(p)
  /\ pc' = [pc EXCEPT ![p] = "done"]
  /\ futs' = [futs EXCEPT ![p] = NoFutures]
  /\ UNCHANGED <<kv, n_shards, hashOf, writers, self_doc, old_kw, started, shVars, qVars, bVars, cVars, gVars, xVars, clVars, aVars, pVars>>

\* the host cancels the request at an await after self.write(): the suspended
\* futures are dropped, the writes already made stay
Cancel(p) ==
  /\ p \in writers
  /\ pc[p] = "shards"
  /\ ~cancelled.found
  /\ cancelled' = [found |-> TRUE, writer |-> p, uuid |-> self_doc[p].uuid,
                   keywords |-> self_doc[p].keywords,
                   dropped |-> kw_removed(old_kw[p], self_doc[p].keywords),
                   retried |-> FALSE]
  /\ pc' = [pc EXCEPT ![p] = "cancelled"]
  /\ futs' = [futs EXCEPT ![p] = NoFutures]
  /\ UNCHANGED <<kv, n_shards, hashOf, writers, self_doc, old_kw, started, shVars, qVars,
                 bVars, cVars, gVars, clVars, aVars, pVars>>

\* the caller retries the cancelled update: handle_update_document loads the
\* document again
RetryLoad(p) ==
  /\ p \in writers
  /\ pc[p] = "cancelled"
  /\ cancelled' = [cancelled EXCEPT !.retried = TRUE]
  /\ pc' = [pc EXCEPT ![p] = "update"]
  /\ self_doc' = [self_doc EXCEPT ![p] = KvGet(kv, document_kv_key(cancelled.uuid))]
  /\ old_kw' = [old_kw EXCEPT ![p] = <<>>]
  /\ futs' = [futs EXCEPT ![p] = NoFutures]
  /\ UNCHANGED <<kv, n_shards, hashOf, writers, started, shVars, qVars, bVars, cVars, gVars,
                 clVars, aVars, pVars>>

(***************************************************************************)
(* Calls on one in-memory shard object.                                    *)
(***************************************************************************)
ShardCallInputs ==
  {<<op, d, s>> : op \in {"add", "remove"}, d \in Docs, s \in Scores}

RECURSIVE SeqsUpTo(_, _)
SeqsUpTo(S, n) ==
  IF n = 0 THEN {<<>>}
  ELSE LET shorter == SeqsUpTo(S, n - 1)
       IN shorter \cup {Append(q, x) : q \in {t \in shorter : Len(t) = n - 1}, x \in S}

\* docs lists a persisted shard can hold: each doc-id at most once
ShardDocLists ==
  {l \in SeqsUpTo(Docs \X Scores, Cardinality(Docs)) :
     \A i, j \in 1..Len(l) : l[i][1] = l[j][1] => i = j}

\* shard.add_document(..) / shard.remove_document(..) on the object sh
ShardCall ==
  /\ sh_in # <<>>
  /\ LET c == Head(sh_in)
         r == IF c[1] = "add" THEN add_document(sh, c[2], c[3])
                              ELSE remove_document(sh, c[2])
     IN /\ sh' = r.shard
        /\ kv' = IF r.write
                   THEN KvPut(kv, keyword_shard_kv_key(sh.keyword, sh.shard), r.shard)
                   ELSE kv
        /\ sh_calls' = Append(sh_calls, [op |-> c[1], doc_id |-> c[2], score |-> c[3],
                                         wrote |-> r.write, before |-> sh.docs,
                                         after |-> r.shard.docs, stored |-> kv',
                                         ts_before |-> sh.ts, ts_after |-> r.shard.ts])
  /\ sh_in' = Tail(sh_in)
  /\ UNCHANGED <<n_shards, hashOf, docVars, qVars, bVars, cVars, gVars, xVars, clVars, aVars, pVars>>

(***************************************************************************)
(* The query executor (QueryLexer).  A result is a HashMap doc-id ->        *)
(* [(keyword, score)]: a function on the set of its doc-ids.                *)
(***************************************************************************)
Nil == [op |-> "Nil"]

Word(w) == [op |-> "Word", word |-> w, left |-> Nil, right |-> Nil]
Not(e) == [op |-> "Not", word |-> "", left |-> e, right |-> Nil]
And(l, r) == [op |-> "And", word |-> "", left |-> l, right |-> r]
Or(l, r) == [op |-> "Or", word |-> "", left |-> l, right |-> r]

RECURSIVE AstsOfSize(_)
AstsOfSize(n) ==
  IF n = 1 THEN {Word(w) : w \in Keywords}
  ELSE {Not(e) : e \in AstsOfSize(n - 1)}
       \cup UNION {{And(l, r) : l \in AstsOfSize(i), r \in AstsOfSize(n - 1 - i)}
                     : i \in 1..(n - 2)}
       \cup UNION {{Or(l, r) : l \in AstsOfSize(i), r \in AstsOfSize(n - 1 - i)}
                     : i \in 1..(n - 2)}

Asts == UNION {AstsOfSize(n) : n \in 1..MaxNodes}

RECURSIVE collect_keywords(_)
collect_keywords(expr) ==
  CASE expr.op = "Word" -> <<expr.word>>
    [] expr.op = "Not" -> collect_keywords(expr.left)
    [] OTHER -> collect_keywords(expr.left) \o collect_keywords(expr.right)

\* what merge_keyword_shards returns: the postings of the shards, best score
\* first, no doc-id twice
PostingLists == {l \in ShardDocLists : \A i \in 1..(Len(l) - 1) : l[i][2] >= l[i + 1][2]}

EmptyMatches == [d \in {} |-> <<>>]

HasKw(kws, kw) == \E i \in 1..Len(kws) : kws[i][1] = kw

\* Expr::Word: collect (doc_id, [(word, score)]) into a HashMap
WordMatches(word) ==
  LET kw_data == kw_cache[word]
      last(d) == CHOOSE i \in 1..Len(kw_data) :
                   /\ kw_data[i][1] = d
                   /\ \A j \in (i + 1)..Len(kw_data) : kw_data[j][1] # d
  IN [d \in {kw_data[i][1] : i \in 1..Len(kw_data)} |-> <<<<word, kw_data[last(d)][2]>>>>]

\* Expr::And: push every right keyword that kws does not hold yet
RECURSIVE AndMergeKws(_, _)
AndMergeKws(kws, right_kws) ==
  IF right_kws = <<>> THEN kws
  ELSE AndMergeKws(IF HasKw(kws, Head(right_kws)[1]) THEN kws
                                                     ELSE Append(kws, Head(right_kws)),
                   Tail(right_kws))

AndUnion(left_result, right_result) ==
  [d \in (DOMAIN left_result) \cup (DOMAIN right_result) |->
     IF d \notin DOMAIN left_result THEN right_result[d]
     ELSE IF d \notin DOMAIN right_result THEN left_result[d]
     ELSE AndMergeKws(left_result[d], right_result[d])]

AndMatches(left_result, right_result) ==
  [d \in (DOMAIN left_result) \cap (DOMAIN right_result) |->
     AndMergeKws(left_result[d], right_result[d])]

SetMergeAppendAll(into, from) ==
  [d \in (DOMAIN into) \cup (DOMAIN from) |->
     IF d \notin DOMAIN into THEN from[d]
     ELSE IF d \notin DOMAIN from THEN into[d]
     ELSE into[d] \o from[d]]

\* set_merge: extend an existing entry by the keywords it does not hold, insert
\* the others
set_merge(into, from) ==
  [d \in (DOMAIN into) \cup (DOMAIN from) |->
     IF d \notin DOMAIN into THEN from[d]
     ELSE IF d \notin DOMAIN from THEN into[d]
     ELSE into[d] \o SelectSeq(from[d], LAMBDA e : ~HasKw(into[d], e[1]))]

\* Expr::Not once inner is evaluated: the entries of self.result that
\* inner_matches does not hold
NotKeepsResult(result, inner_matches) == result

NotMatches(result, inner_matches) ==
  [d \in {x \in DOMAIN result : x \notin DOMAIN inner_matches} |-> result[d]]

LogEntry(expr, ambient, kids, ret) ==
  [expr |-> expr, ambient |-> ambient, kids |-> kids, ret |-> ret]

\* filter_documents_on_query(expr) run with self.result = result: what it returns,
\* self.result afterwards, and the nodes evaluated
RECURSIVE filter_documents_on_query(_, _)
filter_documents_on_query(expr, result) ==
  CASE expr.op = "Not" ->
         LET inner == filter_documents_on_query(expr.left, result)
             negated_result == NotMatches(inner.result, inner.ret)
         IN [ret |-> negated_result, result |-> negated_result,
             log |-> Append(inner.log,
                            LogEntry(expr, result, <<inner.ret>>, negated_result))]
    [] expr.op = "And" ->
         LET l == filter_documents_on_query(expr.left, result)
             r == filter_documents_on_query(expr.right, l.result)
             and_result == AndMatches(l.ret, r.ret)
         IN [ret |-> and_result, result |-> and_result,
             log |-> Append(l.log \o r.log,
                            LogEntry(expr, result, <<l.ret, r.ret>>, and_result))]
    [] expr.op = "Or" ->
         LET l == filter_documents_on_query(expr.left, result)
             r == filter_documents_on_query(expr.right, l.result)
             left_branch == set_merge(l.ret, r.ret)
         IN [ret |-> left_branch, result |-> left_branch,
             log |-> Append(l.log \o r.log,
                            LogEntry(expr, result, <<l.ret, r.ret>>, left_branch))]
    [] OTHER ->
         LET to_add == WordMatches(expr.word)
         IN [ret |-> to_add, result |-> to_add,
             log |-> <<LogEntry(expr, result, <<>>, to_add)>>]

\* QueryLexer::query once the keyword data is preloaded: evaluate the AST
ScoreOfFirst(data) == [num |-> data[1][2], den |-> 1]

RECURSIVE SumScores(_)
SumScores(data) == IF data = <<>> THEN 0 ELSE Head(data)[2] + SumScores(Tail(data))

\* score_collective_keywords; the f64 quotient is kept as numerator and denominator
score_collective_keywords(data) ==
  LET total_matches == Len(data)
  IN IF total_matches = 1 THEN [num |-> data[1][2], den |-> 1]
     ELSE [num |-> SumScores(data), den |-> total_matches]

NoBody == [some |-> FALSE, body |-> 0]

SearchResultRow(doc_id, kw_matches) ==
  [doc_id |-> doc_id, score |-> score_collective_keywords(kw_matches),
   keywords |-> kw_matches, body |-> NoBody]

\* the orders in which the iteration of a HashMap may visit its keys
IterOrders(S) ==
  {l \in [1..Cardinality(S) -> S] : \A i, j \in 1..Cardinality(S) : l[i] = l[j] => i = j}

\* QueryLexer::query once the keyword data is loaded
Query ==
  /\ q_pc = "loaded"
  /\ LET r == filter_documents_on_query(q_ast, q_result)
     IN /\ q_ret' = r.ret
        /\ q_result' = r.result
        /\ q_log' = r.log
        /\ \E order \in IterOrders(DOMAIN r.ret) :
             q_rows' = [i \in 1..Len(order) |-> SearchResultRow(order[i], r.ret[order[i]])]
  /\ q_pc' = "done"
  /\ UNCHANGED <<kv, n_shards, hashOf, docVars, shVars, q_ast, kw_cache, q_calls, bVars, cVars, gVars, xVars, clVars, aVars, pVars>>

(***************************************************************************)
(* The framing codec.  A byte is a number; the values that stand in KV are  *)
(* JSON texts, and bytes of the model stay below 128 (ASCII).               *)
(***************************************************************************)
NoResult == [panic |-> FALSE, items |-> <<>>]

Panicked == [panic |-> TRUE, items |-> <<>>]

\* serde_json::to_string of record number i: the text "{..}" of that record
Json(i) == <<123, i \div 128, i % 128, 125>>

\* serde_json::from_slice::<T>: the record of a text that Json wrote, or an error
from_slice(lp) ==
  IF Len(lp) = 4 /\ lp[1] = 123 /\ lp[4] = 125
    THEN [ok |-> TRUE, value |-> lp[2] * 128 + lp[3]]
    ELSE [ok |-> FALSE, value |-> 0]

to_le_bytes(size) ==
  <<size % 256, (size \div 256) % 256, (size \div 65536) % 256, (size \div 16777216) % 256>>

from_le_bytes(b) == b[1] + 256 * b[2] + 65536 * b[3] + 16777216 * b[4]

\* length_prefix_data: output grows by the u32 little-endian length and the data
length_prefix_data(data, output) == output \o to_le_bytes(Len(data)) \o data

\* docs.iter().for_each(|doc| length_prefix_data(doc, &mut output)), by halves
RECURSIVE Frames(_)
Frames(docs) ==
  IF Len(docs) = 0 THEN <<>>
  ELSE IF Len(docs) = 1 THEN length_prefix_data(docs[1], <<>>)
  ELSE LET h == Len(docs) \div 2
       IN Frames(SubSeq(docs, 1, h)) \o Frames(SubSeq(docs, h + 1, Len(docs)))

FrameAll(docs, output) == output \o Frames(docs)

None == [some |-> FALSE, bytes |-> <<>>]

\* read_one_length_prefixed(&data[pos..])
read_one_length_prefixed(data, pos) ==
  IF Len(data) - pos < 4 THEN None
  ELSE LET size == from_le_bytes(SubSeq(data, pos + 1, pos + 4))
       IN IF Len(data) - pos < 4 + size THEN None
          ELSE [some |-> TRUE, bytes |-> SubSeq(data, pos + 5, pos + 4 + size)]

\* a loop that ends at a frame it cannot read and returns what it has
ReadStepStopsAtTrailer(data, st) ==
  IF st.panic \/ ~(st.pos < Len(data)) THEN st
  ELSE LET one == read_one_length_prefixed(data, st.pos)
           lp == IF one.some THEN one.bytes ELSE <<>>
           obj == from_slice(lp)
       IN IF ~obj.ok THEN [st EXCEPT !.pos = Len(data)]
          ELSE [st EXCEPT !.pos = @ + 4 + Len(lp), !.results = Append(@, obj.value)]

\* one turn of the while loop of read_length_prefixed; st holds pos and results,
\* and panic once serde_json::from_slice(..).unwrap() has failed
ReadStep(data, st) ==
  IF st.panic \/ ~(st.pos < Len(data)) THEN st
  ELSE LET one == read_one_length_prefixed(data, st.pos)
           lp == IF one.some THEN one.bytes ELSE <<>>
           obj == from_slice(lp)
       IN IF ~obj.ok THEN [st EXCEPT !.panic = TRUE]
          ELSE [st EXCEPT !.pos = @ + 4 + Len(lp), !.results = Append(@, obj.value)]

\* k turns of the loop
RECURSIVE ReadLoop(_, _, _)
ReadLoop(data, st, k) ==
  IF k = 0 THEN st
  ELSE IF k = 1 THEN ReadStep(data, st)
  ELSE LET half == ReadLoop(data, st, k \div 2)
       IN IF half.panic THEN half ELSE ReadLoop(data, half, k - k \div 2)

\* read_length_prefixed: every turn moves pos by four bytes at least, so the loop
\* is over after Len(data) \div 4 + 1 turns
read_length_prefixed(data) ==
  LET end == ReadLoop(data, [pos |-> 0, results |-> <<>>, panic |-> FALSE],
                      Len(data) \div 4 + 1)
  IN IF end.panic THEN Panicked ELSE [panic |-> FALSE, items |-> end.results]

(***************************************************************************)
(* The durable reader actor.  A request body is a sequence of tokens: a KV *)
(* key (which holds no comma) or the separator.                            *)
(***************************************************************************)
KV_OPS == 1000

Comma == <<",">>

get_keyword_limit(shards) == KV_OPS \div shards

get_document_limit == 990

DocumentChunk == 1000

\* chunk.join(",")
Join(chunk) ==
  [i \in 1..(IF Len(chunk) = 0 THEN 0 ELSE 2 * Len(chunk) - 1) |->
     IF i % 2 = 1 THEN chunk[(i + 1) \div 2] ELSE Comma]

\* body.split(','): the pieces between the separators, halves first
RECURSIVE Split(_)
Split(body) ==
  IF Len(body) = 0 THEN <<<<>>>>
  ELSE IF Len(body) = 1 THEN (IF body[1] = Comma THEN <<<<>>, <<>>>> ELSE <<body>>)
  ELSE LET h == Len(body) \div 2
           l == Split(SubSeq(body, 1, h))
           r == Split(SubSeq(body, h + 1, Len(body)))
       IN SubSeq(l, 1, Len(l) - 1) \o <<l[Len(l)] \o r[1]>> \o SubSeq(r, 2, Len(r))

\* parse_body: the non-empty pieces, each the key it spells
parse_body(body) ==
  LET pieces == SelectSeq(Split(body), LAMBDA piece : piece # <<>>)
  IN [i \in 1..Len(pieces) |-> pieces[i][1]]

\* "Too many": the first bytes of the text of a 400 response
TooManyText == <<84, 111, 111, 32, 109, 97, 110, 121>>

\* "No keyw" / "No docu": the first bytes of the text of the other 400 response
NoneProvidedText(path) ==
  IF path = "/keywords" THEN <<78, 111, 32, 107, 101, 121, 119>>
                        ELSE <<78, 111, 32, 100, 111, 99, 117>>

NoResp == [handled |-> FALSE, panicked |-> FALSE, status |-> 0, body |-> <<>>, gets |-> 0]

Resp(status, body, gets) ==
  [handled |-> TRUE, panicked |-> FALSE, status |-> status, body |-> body, gets |-> gets]

ActorPanic(gets) ==
  [handled |-> TRUE, panicked |-> TRUE, status |-> 0, body |-> <<>>, gets |-> gets]

\* DurableReader::get_keywords: the values found, in order (filter_map)
get_keywords(store, keywords) ==
  LET hits == SelectSeq(keywords, LAMBDA k : k \in DOMAIN store)
  IN [i \in 1..Len(hits) |-> store[hits[i]]]

\* DurableReader::get_documents: unwrap_or(Some(vec![])).unwrap() of every get; an
\* absent key is Ok(None), whose unwrap panics
get_documents(store, doc_ids) ==
  IF \E i \in 1..Len(doc_ids) : doc_ids[i] \notin DOMAIN store
    THEN [panic |-> TRUE, items |-> <<>>]
    ELSE [panic |-> FALSE, items |-> [i \in 1..Len(doc_ids) |-> store[doc_ids[i]]]]

\* DurableReader::fetch for POST path with the given body
fetch(path, body) ==
  LET entries == parse_body(body)
  IN IF Len(entries) > get_keyword_limit(n_shards) THEN Resp(400, TooManyText, 0)
     ELSE IF entries = <<>> THEN Resp(400, NoneProvidedText(path), 0)
     ELSE IF path = "/keywords"
       THEN Resp(200, FrameAll(get_keywords(kv, entries), <<>>), Len(entries))
       ELSE LET doc_bodies == get_documents(kv, entries)
            IN IF doc_bodies.panic THEN ActorPanic(Len(entries))
               ELSE Resp(200, FrameAll(doc_bodies.items, <<>>), Len(entries))

(***************************************************************************)
(* The bulk reader.                                                        *)
(***************************************************************************)
Min(a, b) == IF a < b THEN a ELSE b

ChunksDropTail(kv_keys, size) ==
  [c \in 1..(Len(kv_keys) \div size) |->
     SubSeq(kv_keys, (c - 1) * size + 1, c * size)]

\* kv_keys.chunks(size)
chunks(kv_keys, size) ==
  [c \in 1..((Len(kv_keys) + size - 1) \div size) |->
     SubSeq(kv_keys, (c - 1) * size + 1, Min(c * size, Len(kv_keys)))]

\* the size below which a read goes to KV directly
DirectLimit(read_type) ==
  IF read_type = "/keywords" THEN get_keyword_limit(n_shards) ELSE get_document_limit

\* chunked_request: max_per_chunk
max_per_chunk(read_type) ==
  IF read_type = "/keywords" THEN get_keyword_limit(n_shards) ELSE DocumentChunk

\* KvPersistent::read(kv_key).await.unwrap() of every key, through join_all
DirectRead(store, kv_keys) ==
  IF \E i \in 1..Len(kv_keys) : kv_keys[i] \notin DOMAIN store
    THEN Panicked
    ELSE LET objs == [i \in 1..Len(kv_keys) |-> from_slice(store[kv_keys[i]])]
         IN IF \E i \in 1..Len(objs) : ~objs[i].ok THEN Panicked
            ELSE [panic |-> FALSE, items |-> [i \in 1..Len(objs) |-> objs[i].value]]

\* data_chunks.map(read_length_prefixed).flatten().collect(); a fetch of a request
\* on which the actor panicked is an Err, whose unwrap panics
RECURSIVE Flatten(_, _)
Flatten(resps, acc) ==
  IF resps = <<>> THEN [panic |-> FALSE, items |-> acc]
  ELSE IF Head(resps).panicked THEN Panicked
  ELSE LET got == read_length_prefixed(Head(resps).body)
       IN IF got.panic THEN Panicked
          ELSE Flatten(Tail(resps), acc \o got.items)

\* get_keyword_kv_keys / get_documents_kv_keys below the limit: direct gets
BulkDirect ==
  /\ b_pc = "start"
  /\ Len(b_keys) < DirectLimit(b_type)
  /\ b_out' = DirectRead(kv, b_keys)
  /\ b_gets' = Len(b_keys)
  /\ b_pc' = "done"
  /\ UNCHANGED <<kv, n_shards, hashOf, docVars, shVars, qVars, cVars, gVars, xVars, clVars, aVars, pVars,
                 b_type, b_keys, b_reqs, b_resps, b_calls>>

\* get_keyword_kv_keys / get_documents_kv_keys at or above the limit:
\* chunked_request posts one request per chunk
BulkDispatch ==
  /\ b_pc = "start"
  /\ Len(b_keys) >= DirectLimit(b_type)
  /\ LET parts == chunks(b_keys, max_per_chunk(b_type))
     IN /\ b_reqs' = [c \in 1..Len(parts) |-> Join(parts[c])]
        /\ b_resps' = [c \in 1..Len(parts) |-> NoResp]
        /\ b_calls' = Len(parts)
  /\ b_pc' = "waiting"
  /\ UNCHANGED <<kv, n_shards, hashOf, docVars, shVars, qVars, cVars, gVars, xVars, clVars, aVars, pVars,
                 b_type, b_keys, b_out, b_gets>>

\* DurableReader::fetch handles one of the posted requests
ActorFetch(c) ==
  /\ b_pc = "waiting"
  /\ c \in 1..Len(b_reqs)
  /\ ~b_resps[c].handled
  /\ b_resps' = [b_resps EXCEPT ![c] = fetch(b_type, b_reqs[c])]
  /\ UNCHANGED <<kv, n_shards, hashOf, docVars, shVars, qVars, cVars, gVars, xVars, clVars, aVars, pVars,
                 b_pc, b_type, b_keys, b_reqs, b_out, b_gets, b_calls>>

\* chunked_request once join_all(chunk_futures) is over: decode and flatten
BulkCollect ==
  /\ b_pc = "waiting"
  /\ \A c \in 1..Len(b_reqs) : b_resps[c].handled
  /\ b_out' = Flatten(b_resps, <<>>)
  /\ b_pc' = "done"
  /\ UNCHANGED <<kv, n_shards, hashOf, docVars, shVars, qVars, cVars, gVars, xVars, clVars, aVars, pVars,
                 b_type, b_keys, b_reqs, b_resps, b_gets, b_calls>>

(***************************************************************************)
(* One run of the codec: frame the payloads, then read them back.          *)
(***************************************************************************)
Encode ==
  /\ c_pc = "encode"
  /\ c_buf' = FrameAll(c_xs, <<>>)
  /\ c_pc' = "decode"
  /\ UNCHANGED <<kv, n_shards, hashOf, docVars, shVars, qVars, bVars, gVars, xVars, clVars, aVars, pVars, c_xs, c_out>>

Decode ==
  /\ c_pc = "decode"
  /\ c_out' = read_length_prefixed(c_buf)
  /\ c_pc' = "done"
  /\ UNCHANGED <<kv, n_shards, hashOf, docVars, shVars, qVars, bVars, gVars, xVars, clVars, aVars, pVars, c_xs, c_buf>>

\* the buffer arrives cut after its first n bytes
Truncate(n) ==
  /\ c_pc = "decode"
  /\ n < Len(c_buf)
  /\ c_buf' = SubSeq(c_buf, 1, n)
  /\ UNCHANGED <<kv, n_shards, hashOf, docVars, shVars, qVars, bVars, gVars, xVars, clVars,
                 aVars, pVars, c_pc, c_xs, c_out>>

(***************************************************************************)
(* The keyword merger and the keyword endpoint.                            *)
(***************************************************************************)
\* the decimal digits of a shard number
RECURSIVE Digits(_)
Digits(n) == IF n < 10 THEN <<n>> ELSE Append(Digits(n \div 10), n % 10)

\* the bytes of the names of the model (ASCII)
Ascii(name) ==
  CASE name = "a" -> <<97>>
    [] name = "b" -> <<98>>
    [] name = "d1" -> <<100, 49>>
    [] name = "d2" -> <<100, 50>>
    [] name = "x" -> <<120>>
    [] name = "x:kw:a" -> <<120, 58, 107, 119, 58, 97>>
    [] name = "a+b" -> <<97, 43, 98>>
    [] name = "a&b" -> <<97, 38, 98>>
    [] name = "a=b" -> <<97, 61, 98>>
    [] name = "a%62" -> <<97, 37, 54, 50>>
    [] name = "%" -> <<37>>

Colon == <<58>>

PREFIX_DOCUMENT == <<100, 111, 99, 117, 109, 101, 110, 116, 58>>

PREFIX_KEYWORD == <<107, 119, 58>>

\* the index of the requests of the model, and an index whose name holds colons
ThisIndex == "x"

OtherIndex == "x:kw:a"

\* a KV key written by requests to OtherIndex
InOtherIndex(key) == <<"other">> \o key

\* format!("{}:{}{}:{}", index, PREFIX_KEYWORD, keyword, shard) and
\* format!("{}:{}{}", index, PREFIX_DOCUMENT, uuid): the key as the string KV holds
RECURSIVE KeyString(_)
KeyString(key) ==
  IF key[1] = "other"
    THEN Ascii(OtherIndex)
           \o SubSeq(KeyString(Tail(key)), Len(Ascii(ThisIndex)) + 1, Len(KeyString(Tail(key))))
  ELSE IF key[1] = "kw"
    THEN Ascii(ThisIndex) \o Colon \o PREFIX_KEYWORD \o Ascii(key[2]) \o Colon
           \o [i \in 1..Len(Digits(key[3])) |-> 48 + Digits(key[3])[i]]
  ELSE Ascii(ThisIndex) \o Colon \o PREFIX_DOCUMENT \o Ascii(key[2])

IsPrefix(x, y) == Len(x) <= Len(y) /\ SubSeq(y, 1, Len(x)) = x

\* lexicographic order of two strings (the order of a KV listing)
RECURSIVE LexLess(_, _)
LexLess(x, y) ==
  IF x = <<>> THEN y # <<>>
  ELSE IF y = <<>> THEN FALSE
  ELSE IF Head(x) # Head(y) THEN Head(x) < Head(y)
  ELSE LexLess(Tail(x), Tail(y))

\* the pieces of the input between the separators '&', the empty ones skipped
RECURSIVE Pairs(_, _)
Pairs(input, piece) ==
  IF input = <<>> THEN (IF piece = <<>> THEN <<>> ELSE <<piece>>)
  ELSE IF Head(input) = 38
    THEN (IF piece = <<>> THEN <<>> ELSE <<piece>>) \o Pairs(Tail(input), <<>>)
  ELSE Pairs(Tail(input), Append(piece, Head(input)))

\* the name of a pair: what stands before its first '='
RECURSIVE NameOf(_)
NameOf(pair) ==
  IF pair = <<>> \/ Head(pair) = 61 THEN <<>> ELSE <<Head(pair)>> \o NameOf(Tail(pair))

IsHex(b) == b \in (48..57) \cup (65..70) \cup (97..102)

HexVal(b) == IF b <= 57 THEN b - 48 ELSE IF b <= 70 THEN b - 55 ELSE b - 87

\* percent_decode: %XY with two hex digits is one byte, anything else stays
RECURSIVE PercentDecode(_)
PercentDecode(bytes) ==
  IF bytes = <<>> THEN <<>>
  ELSE IF Head(bytes) = 37 /\ Len(bytes) >= 3 /\ IsHex(bytes[2]) /\ IsHex(bytes[3])
    THEN <<16 * HexVal(bytes[2]) + HexVal(bytes[3])>>
           \o PercentDecode(SubSeq(bytes, 4, Len(bytes)))
  ELSE <<Head(bytes)>> \o PercentDecode(Tail(bytes))

\* form_urlencoded's decode: '+' becomes a blank, then percent_decode
DecodeName(bytes) ==
  PercentDecode([i \in 1..Len(bytes) |-> IF bytes[i] = 43 THEN 32 ELSE bytes[i]])

RECURSIVE ConcatAll(_)
ConcatAll(strings) ==
  IF strings = <<>> THEN <<>> ELSE Head(strings) \o ConcatAll(Tail(strings))

\* a decoding that leaves the keyword as it is
UrlDecodeIsIdentity(input) == input

\* url_decode: form_urlencoded::parse(input).map(|(k, _)| k).collect::<String>()
url_decode(input) ==
  LET pairs == Pairs(input, <<>>)
  IN ConcatAll([i \in 1..Len(pairs) |-> DecodeName(NameOf(pairs[i]))])

\* self.state.list().prefix(format!("{}:{}{}:", index, PREFIX_KEYWORD, keyword)),
\* keyword being url_decode(keyword_raw): the keys whose string starts with the
\* prefix, in the order of their strings
list_prefix(store, keyword) ==
  LET prefix == Ascii(ThisIndex) \o Colon \o PREFIX_KEYWORD \o url_decode(Ascii(keyword))
                  \o Colon
      found == {x \in DOMAIN store : IsPrefix(prefix, KeyString(x))}
      pos(x) == Cardinality({y \in found : y = x \/ LexLess(KeyString(y), KeyString(x))})
  IN [i \in 1..Cardinality(found) |-> CHOOSE x \in found : pos(x) = i]

\* the stored value is the JSON of a KeywordShardData
IsShardRecord(value) == "docs" \in DOMAIN value

\* bulk.get_keyword_kv_keys(kv_keys) for listed keys: the stored shard of each key
\* in order, by direct gets or through the durable reader; a value that is no
\* KeywordShardData fails to deserialize, and the unwrap of its read panics
get_keyword_kv_keys(store, kv_keys) ==
  IF \E i \in 1..Len(kv_keys) : ~IsShardRecord(store[kv_keys[i]])
    THEN [panic |-> TRUE, items |-> <<>>]
    ELSE [panic |-> FALSE, items |-> [i \in 1..Len(kv_keys) |-> store[kv_keys[i]]]]

\* kv_data.iter().flat_map(|data| data.docs.clone()).collect()
RECURSIVE FlatMapDocs(_)
FlatMapDocs(kv_data) ==
  IF kv_data = <<>> THEN <<>> ELSE Head(kv_data).docs \o FlatMapDocs(Tail(kv_data))

\* the place of e in a list sorted by score descending: after every entry whose
\* score is not less (sort_by is stable)
InsertByScore(sorted, e) ==
  LET n == Cardinality({i \in 1..Len(sorted) : sorted[i][2] >= e[2]})
  IN SubSeq(sorted, 1, n) \o <<e>> \o SubSeq(sorted, n + 1, Len(sorted))

\* merged_keywords.sort_by(|a, b| b.1.partial_cmp(&a.1)..)
RECURSIVE SortByScore(_, _)
SortByScore(list, sorted) ==
  IF list = <<>> THEN sorted
  ELSE SortByScore(Tail(list), InsertByScore(sorted, Head(list)))

\* KeywordManager::merge_keyword_shards
merge_keyword_shards(store, keyword) ==
  LET kv_keys == list_prefix(store, keyword)
      kv_data == get_keyword_kv_keys(store, kv_keys)
  IN IF kv_data.panic THEN [panic |-> TRUE, merged |-> <<>>]
     ELSE [panic |-> FALSE, merged |-> SortByScore(FlatMapDocs(kv_data.items), <<>>)]

NoKeywordResponse ==
  [keyword |-> "", panicked |-> FALSE, merged |-> <<>>, document_count |-> 0,
   scores |-> <<>>]

\* merged.into_iter().collect::<HashMap<String, f64>>(): the last score of a doc-id
ScoresMap(merged) ==
  [d \in {merged[i][1] : i \in 1..Len(merged)} |->
     merged[CHOOSE i \in 1..Len(merged) :
              merged[i][1] = d /\ \A j \in (i + 1)..Len(merged) : merged[j][1] # d][2]]

\* handle_get_keyword: GET /:index/keyword/:keyword
HandleGetKeyword(keyword) ==
  /\ g_resp.keyword = ""
  /\ LET merged == merge_keyword_shards(kv, keyword).merged
     IN g_resp' = [keyword |-> keyword,
                   panicked |-> merge_keyword_shards(kv, keyword).panic,
                   merged |-> merged,
                   document_count |-> Len(merged), scores |-> ScoresMap(merged)]
  /\ UNCHANGED <<kv, n_shards, hashOf, docVars, shVars, qVars, bVars, cVars, pVars, xVars, clVars, aVars>>

\* QueryLexer::new and the head of QueryLexer::query: kw_cache and result cleared
NewQuery(ast) ==
  /\ q_pc = "none"
  /\ q_pc' = "new"
  /\ q_ast' = ast
  /\ kw_cache' = <<>>
  /\ q_result' = EmptyMatches
  /\ UNCHANGED <<kv, n_shards, hashOf, docVars, shVars, q_ret, q_log, q_rows, q_calls, bVars,
                 cVars, gVars, xVars, clVars, aVars, pVars>>

\* the keywords that pass .filter(|kw| !self.kw_cache.contains_key(kw)): the
\* futures are collected before any of them inserts into the cache
NotYetCached(all_keywords, cache) ==
  SelectSeq(all_keywords, LAMBDA kw : kw \notin DOMAIN cache)

\* QueryLexer::preload_keyword_data: one merge_keyword_shards(..).await.unwrap()
\* per future, then the inserts into kw_cache
Preload ==
  /\ q_pc = "new"
  /\ LET all_keywords == collect_keywords(q_ast)
         keyword_futures == NotYetCached(all_keywords, kw_cache)
     IN /\ q_calls' = keyword_futures
        /\ IF \E i \in 1..Len(keyword_futures) :
                merge_keyword_shards(kv, keyword_futures[i]).panic
             THEN /\ q_pc' = "panicked"
                  /\ UNCHANGED kw_cache
             ELSE /\ q_pc' = "loaded"
                  /\ kw_cache' = [kw \in Range(keyword_futures) |->
                                    merge_keyword_shards(kv, kw).merged]
  /\ UNCHANGED <<kv, n_shards, hashOf, docVars, shVars, q_ast, q_result, q_ret, q_log, q_rows,
                 bVars, cVars, gVars, xVars, clVars, aVars, pVars>>

(***************************************************************************)
(* The query tokenizer and parser (StringTokenizer) and the head of the    *)
(* search endpoint.  A query is a sequence of characters, a token a record *)
(* [t, word], and the iterator over the tokens the index of its next item. *)
(***************************************************************************)
Quote == "\""

\* the characters of the queries: the structural ones, the quote, a blank and a
\* character that is none of them
QueryChars == {"(", ")", "&", "|", "~", Quote, " ", "a"}

Token(t) == [t |-> t, word |-> ""]
TokenWord(word) == [t |-> "Word", word |-> word]

TokenizeErr(e) == [ok |-> FALSE, err |-> e, tokens |-> <<>>]

\* the inner loop of tokenize on a quoted word: the position of the closing
\* quote at or after i, or 0 when the input ends first
RECURSIVE ClosingQuote(_, _)
ClosingQuote(input, i) ==
  IF i > Len(input) THEN 0
  ELSE IF input[i] = Quote THEN i
  ELSE ClosingQuote(input, i + 1)

RECURSIVE Concat(_, _, _)
Concat(input, i, j) == IF i > j THEN "" ELSE input[i] \o Concat(input, i + 1, j)

\* StringTokenizer::tokenize from character i on, with the tokens pushed so far
RECURSIVE tokenize_from(_, _, _)
tokenize_from(input, i, tokens) ==
  IF i > Len(input) THEN [ok |-> TRUE, err |-> "", tokens |-> tokens]
  ELSE LET ch == input[i]
       IN CASE ch \in {" ", "\t", "\n"} -> tokenize_from(input, i + 1, tokens)
            [] ch = "(" -> tokenize_from(input, i + 1, Append(tokens, Token("LParen")))
            [] ch = ")" -> tokenize_from(input, i + 1, Append(tokens, Token("RParen")))
            [] ch = "&" ->
                 IF i + 1 > Len(input) \/ input[i + 1] # "&" THEN TokenizeErr("InvalidToken")
                 ELSE tokenize_from(input, i + 2, Append(tokens, Token("And")))
            [] ch = "|" ->
                 IF i + 1 > Len(input) \/ input[i + 1] # "|" THEN TokenizeErr("InvalidToken")
                 ELSE tokenize_from(input, i + 2, Append(tokens, Token("Or")))
            [] ch = "~" -> tokenize_from(input, i + 1, Append(tokens, Token("Not")))
            [] ch = Quote ->
                 LET close == ClosingQuote(input, i + 1)
                 IN IF close = 0 THEN TokenizeErr("UnclosedQuote")
                    ELSE tokenize_from(input, close + 1,
                                       Append(tokens, TokenWord(Concat(input, i + 1, close - 1))))
            [] OTHER -> TokenizeErr("InvalidToken")

tokenize(input) == tokenize_from(input, 1, <<>>)

\* Option<Expr> with the iterator as the call left it
ParseNone == [ok |-> FALSE, expr |-> Nil, pos |-> 0]
ParseSome(expr, pos) == [ok |-> TRUE, expr |-> expr, pos |-> pos]

\* iter.peek() / iter.next() is the token t
NextIs(tokens, pos, t) == pos <= Len(tokens) /\ tokens[pos].t = t

RECURSIVE parse_or(_, _)
RECURSIVE parse_and(_, _)
RECURSIVE parse_primary(_, _)
RECURSIVE OrLoop(_, _)
RECURSIVE AndLoop(_, _)

\* StringTokenizer::parse_primary
parse_primary(tokens, pos) ==
  IF NextIs(tokens, pos, "Word") THEN ParseSome(Word(tokens[pos].word), pos + 1)
  ELSE IF NextIs(tokens, pos, "LParen")
    THEN LET inner == parse_or(tokens, pos + 1)
         IN IF ~inner.ok THEN ParseNone
            ELSE IF NextIs(tokens, inner.pos, "RParen") THEN ParseSome(inner.expr, inner.pos + 1)
            ELSE ParseNone
  ELSE ParseNone

NotIsDropped(tokens, pos) ==
  IF NextIs(tokens, pos, "Not") THEN parse_primary(tokens, pos + 1)
  ELSE parse_primary(tokens, pos)

\* StringTokenizer::parse_not
parse_not(tokens, pos) ==
  IF NextIs(tokens, pos, "Not")
    THEN LET inner == parse_primary(tokens, pos + 1)
         IN IF ~inner.ok THEN ParseNone ELSE ParseSome(Not(inner.expr), inner.pos)
    ELSE parse_primary(tokens, pos)

\* the while loop of parse_and, left being the expression built so far
AndLoop(tokens, left) ==
  IF NextIs(tokens, left.pos, "And")
    THEN LET right == parse_not(tokens, left.pos + 1)
         IN IF ~right.ok THEN ParseNone
            ELSE AndLoop(tokens, ParseSome(And(left.expr, right.expr), right.pos))
    ELSE left

\* StringTokenizer::parse_and
parse_and(tokens, pos) ==
  LET left == parse_not(tokens, pos)
  IN IF ~left.ok THEN ParseNone ELSE AndLoop(tokens, left)

\* the while loop of parse_or
OrLoop(tokens, left) ==
  IF NextIs(tokens, left.pos, "Or")
    THEN LET right == parse_and(tokens, left.pos + 1)
         IN IF ~right.ok THEN ParseNone
            ELSE OrLoop(tokens, ParseSome(Or(left.expr, right.expr), right.pos))
    ELSE left

\* StringTokenizer::parse_or
parse_or(tokens, pos) ==
  LET left == parse_and(tokens, pos)
  IN IF ~left.ok THEN ParseNone ELSE OrLoop(tokens, left)

\* StringTokenizer::parse: what is left in the iterator is dropped with it
parse(tokens) == [ok |-> parse_or(tokens, 1).ok, expr |-> parse_or(tokens, 1).expr]

NoTokens == [ok |-> FALSE, err |-> "", tokens |-> <<>>]
NoAst == [ok |-> FALSE, expr |-> Nil]
NoSearchResponse == [status |-> 0, panicked |-> FALSE, lists |-> 0]
ParseErrorResponse == [status |-> 400, panicked |-> FALSE, lists |-> 0]
SearchPanicked == [status |-> 0, panicked |-> TRUE, lists |-> 0]

\* QueryLexer::from_str, first statement: tokenize(query)?; handle_search answers
\* an Err with 400 "Failed to parse query"
Tokenize ==
  /\ p_pc = "request"
  /\ p_tokens' = tokenize(p_query)
  /\ IF p_tokens'.ok
       THEN p_pc' = "tokenized" /\ p_resp' = p_resp
       ELSE p_pc' = "done" /\ p_resp' = ParseErrorResponse
  /\ UNCHANGED <<kv, n_shards, hashOf, docVars, shVars, qVars, bVars, cVars, gVars, xVars, clVars, aVars,
                 p_query, p_ast, p_printed>>

\* QueryLexer::from_str, second statement: parse(tokens).unwrap()
Parse ==
  /\ p_pc = "tokenized"
  /\ p_ast' = parse(p_tokens.tokens)
  /\ IF p_ast'.ok
       THEN p_pc' = "parsed" /\ p_resp' = p_resp
       ELSE p_pc' = "done" /\ p_resp' = SearchPanicked
  /\ UNCHANGED <<kv, n_shards, hashOf, docVars, shVars, qVars, bVars, cVars, gVars, xVars, clVars, aVars,
                 p_query, p_tokens, p_printed>>

QueryWords == {"a", "b", "c"}

\* the words of the model as character sequences: what a short query can quote,
\* and the words of the sentences
WordTexts ==
  UNION {[1..n -> QueryChars \ {Quote}] : n \in 0..(MaxQueryLen - 2)} \cup {<<w>> : w \in QueryWords}

\* a String of given characters, and the characters of a String
Str(chars) == Concat(chars, 1, Len(chars))

Chars(word) == CHOOSE chars \in WordTexts : Str(chars) = word

\* impl Display for Expr
RECURSIVE fmt(_)
fmt(expr) ==
  CASE expr.op = "Word" -> Chars(expr.word)
    [] expr.op = "Not" -> <<"~", "(">> \o fmt(expr.left) \o <<")">>
    [] expr.op = "And" ->
         <<"(">> \o fmt(expr.left) \o <<" ", "&", "&", " ">> \o fmt(expr.right) \o <<")">>
    [] expr.op = "Or" ->
         <<"(">> \o fmt(expr.left) \o <<" ", "|", "|", " ">> \o fmt(expr.right) \o <<")">>

\* handle_search past the parse: the query runs, preload_keyword_data listing the
\* shards of every keyword of the AST, the AST is formatted for the log, and the
\* rows are returned
Execute ==
  /\ p_pc = "parsed"
  /\ p_printed' = fmt(p_ast.expr)
  /\ p_resp' = [status |-> 200, panicked |-> FALSE,
                lists |-> Cardinality(Range(collect_keywords(p_ast.expr)))]
  /\ p_pc' = "done"
  /\ UNCHANGED <<kv, n_shards, hashOf, docVars, shVars, qVars, bVars, cVars, gVars, xVars, clVars, aVars,
                 p_query, p_tokens, p_ast>>

(***************************************************************************)
(* The client library: QueryExpr and its query string.  A QueryExpr has    *)
(* the variants of Expr and is written with the same constructors.         *)
(***************************************************************************)
RECURSIVE ToQueryStringBare(_)
ToQueryStringBare(expr) ==
  CASE expr.op = "Word" -> Chars(expr.word)
    [] expr.op = "Not" -> <<"~", "(">> \o ToQueryStringBare(expr.left) \o <<")">>
    [] expr.op = "And" ->
         <<"(">> \o ToQueryStringBare(expr.left) \o <<" ", "&", "&", " ">>
                 \o ToQueryStringBare(expr.right) \o <<")">>
    [] expr.op = "Or" ->
         <<"(">> \o ToQueryStringBare(expr.left) \o <<" ", "|", "|", " ">>
                 \o ToQueryStringBare(expr.right) \o <<")">>

\* QueryExpr::to_query_string
RECURSIVE to_query_string(_)
to_query_string(expr) ==
  CASE expr.op = "Word" -> <<Quote>> \o Chars(expr.word) \o <<Quote>>
    [] expr.op = "Not" -> <<"~", "(">> \o to_query_string(expr.left) \o <<")">>
    [] expr.op = "And" ->
         <<"(">> \o to_query_string(expr.left) \o <<" ", "&", "&", " ">>
                 \o to_query_string(expr.right) \o <<")">>
    [] expr.op = "Or" ->
         <<"(">> \o to_query_string(expr.left) \o <<" ", "|", "|", " ">>
                 \o to_query_string(expr.right) \o <<")">>

\* Client::search_expr: the query string of the expression is sent to the search
\* endpoint
SearchExpr ==
  /\ p_pc = "none"
  /\ cl_expr # Nil
  /\ p_query' = to_query_string(cl_expr)
  /\ p_pc' = "request"
  /\ UNCHANGED <<kv, n_shards, hashOf, docVars, shVars, qVars, bVars, cVars, gVars, xVars, aVars,
                 clVars, p_tokens, p_ast, p_resp, p_printed>>

(***************************************************************************)
(* The router and the API key check.                                       *)
(***************************************************************************)
ENV_VAR_API_KEY == "API_KEY"

\* an Option / a Result of a string
Absent == [some |-> FALSE, value |-> ""]
Present(value) == [some |-> TRUE, value |-> value]

\* ctx.env.var(name): Err when the environment holds no such variable
var(env, name) == IF name \in DOMAIN env THEN Present(env[name]) ELSE Absent

\* check_auth
check_auth(req, env) ==
  LET v == var(env, ENV_VAR_API_KEY)
  IN IF v.some
       THEN LET api_key == req.header
            IN api_key = Present(v.value)
       ELSE FALSE

\* the routes of main: those wrapped in with_auth!, and "/"
ProtectedRoutes ==
  {"POST /:index/search", "GET /:index/keyword/:keyword", "GET /:index/doc/:id",
   "POST /:index/doc", "POST /:index/doc/:id", "PATCH /:index/doc/:id",
   "DELETE /:index/doc/:id", "GET /indexes", "GET /:index", "PUT /:index",
   "DELETE /:index"}

OpenRoutes == {"GET /"}

NoRouterResponse == [status |-> 0, handled |-> FALSE]

\* with_auth!, first half: the key check of a protected route
CheckAuth ==
  /\ a_pc = "request"
  /\ a_req.route \in ProtectedRoutes
  /\ a_auth' = check_auth(a_req, a_key)
  /\ a_pc' = "checked"
  /\ UNCHANGED <<kv, n_shards, hashOf, docVars, shVars, qVars, bVars, cVars, gVars, xVars, clVars, pVars,
                 a_key, a_req, a_resp>>

\* with_auth!, second half: the handler runs, or 401 "Unauthorized"
Authorized ==
  /\ a_pc = "checked"
  /\ a_auth
  /\ a_resp' = [status |-> 200, handled |-> TRUE]
  /\ a_pc' = "done"
  /\ UNCHANGED <<kv, n_shards, hashOf, docVars, shVars, qVars, bVars, cVars, gVars, xVars, clVars, pVars,
                 a_key, a_req, a_auth>>

Unauthorized ==
  /\ a_pc = "checked"
  /\ ~a_auth
  /\ a_resp' = [status |-> 401, handled |-> FALSE]
  /\ a_pc' = "done"
  /\ UNCHANGED <<kv, n_shards, hashOf, docVars, shVars, qVars, bVars, cVars, gVars, xVars, clVars, pVars,
                 a_key, a_req, a_auth>>

\* the route "/" runs handle_index without a key check
Unprotected ==
  /\ a_pc = "request"
  /\ a_req.route \in OpenRoutes
  /\ a_resp' = [status |-> 200, handled |-> TRUE]
  /\ a_pc' = "done"
  /\ UNCHANGED <<kv, n_shards, hashOf, docVars, shVars, qVars, bVars, cVars, gVars, xVars, clVars, pVars,
                 a_key, a_req, a_auth>>

(***************************************************************************)
(* Specifications.                                                         *)
(***************************************************************************)
IdleWriters(W) ==
  /\ writers = W
  /\ pc = [p \in W |-> "idle"]
  /\ self_doc = [p \in W |-> NotFound]
  /\ old_kw = [p \in W |-> <<>>]
  /\ futs = [p \in W |-> NoFutures]
  /\ started = 0

NoShardObject ==
  /\ sh = NotFound
  /\ sh_calls = <<>>
  /\ sh_in = <<>>

NoKeywordRequest == g_resp = NoKeywordResponse

NoClientRequest == cl_expr = Nil

NoCancellation == cancelled = NotFound

NoRouterRequest ==
  /\ a_pc = "none"
  /\ a_key = <<>>
  /\ a_req = [route |-> "", header |-> Absent]
  /\ a_auth = FALSE
  /\ a_resp = NoRouterResponse

NoSearchRequest ==
  /\ p_pc = "none"
  /\ p_query = <<>>
  /\ p_tokens = NoTokens
  /\ p_ast = NoAst
  /\ p_resp = NoSearchResponse
  /\ p_printed = <<>>

NoBulkRead ==
  /\ b_pc = "none"
  /\ b_type = ""
  /\ b_keys = <<>>
  /\ b_reqs = <<>>
  /\ b_resps = <<>>
  /\ b_out = NoResult
  /\ b_gets = 0
  /\ b_calls = 0

NoCodec ==
  /\ c_pc = "none"
  /\ c_xs = <<>>
  /\ c_buf = <<>>
  /\ c_out = NoResult

NoQuery ==
  /\ q_pc = "none"
  /\ q_ast = <<>>
  /\ kw_cache = <<>>
  /\ q_result = <<>>
  /\ q_ret = <<>>
  /\ q_log = <<>>
  /\ q_calls = <<>>
  /\ q_rows = <<>>

Config ==
  /\ n_shards = DEFAULT_N_SHARDS
  /\ hashOf \in HashTables

EmptyKv == [k \in {} |-> NotFound]

\* concurrent document requests
Init ==
  /\ Config
  /\ kv = EmptyKv
  /\ IdleWriters(Writers)
  /\ NoShardObject
  /\ NoQuery
  /\ NoBulkRead
  /\ NoCodec
  /\ NoKeywordRequest
  /\ NoSearchRequest
  /\ NoCancellation
  /\ NoClientRequest
  /\ NoRouterRequest

\* one request at a time
InitSingle ==
  /\ Config
  /\ kv = EmptyKv
  /\ IdleWriters({1})
  /\ NoShardObject
  /\ NoQuery
  /\ NoBulkRead
  /\ NoCodec
  /\ NoKeywordRequest
  /\ NoSearchRequest
  /\ NoCancellation
  /\ NoClientRequest
  /\ NoRouterRequest

Next ==
  \/ \E p \in writers, d \in Docs : HandleAddDocument(p, d)
  \/ \E p \in writers, d \in Docs : HandleUpdateDocument(p, d)
  \/ \E p \in writers, l \in KeywordLists : UpdateWrite(p, l)
  \/ \E p \in writers, k \in Keywords : FromKeywordRead(p, k)
  \/ \E p \in writers, k \in Keywords : FromKeywordCreate(p, k)
  \/ \E p \in writers, k \in Keywords : ShardWrite(p, k)
  \/ \E p \in writers : UpdateReturn(p)

Spec == Init /\ [][Next]_vars

SpecSingle == InitSingle /\ [][Next]_vars

\* document requests of one writer on a KV whose operations on shards may fail
NextFailing ==
  \/ Next
  \/ \E p \in writers, k \in Keywords : FromKeywordReadErr(p, k)
  \/ \E p \in writers, k \in Keywords : FromKeywordCreateErr(p, k)
  \/ \E p \in writers, k \in Keywords : ShardWriteErr(p, k)
  \/ \E p \in writers : UpdateWriteErr(p)

SpecFailing == InitSingle /\ [][NextFailing]_vars

\* a single writer whose update the host may cancel once; the writer then retries
\* the update with the same body and issues nothing else
NextCancel ==
  \/ \E p \in writers, d \in Docs : ~cancelled.found /\ HandleAddDocument(p, d)
  \/ \E p \in writers, d \in Docs : ~cancelled.found /\ HandleUpdateDocument(p, d)
  \/ \E p \in writers, l \in KeywordLists :
       /\ cancelled.found => l = cancelled.keywords
       /\ UpdateWrite(p, l)
  \/ \E p \in writers, k \in Keywords : FromKeywordRead(p, k)
  \/ \E p \in writers, k \in Keywords : FromKeywordCreate(p, k)
  \/ \E p \in writers, k \in Keywords : ShardWrite(p, k)
  \/ \E p \in writers : UpdateReturn(p)
  \/ \E p \in writers : Cancel(p)
  \/ \E p \in writers : RetryLoad(p)

SpecCancel == InitSingle /\ [][NextCancel]_vars

\* KV after the ingestion of document d with the keyword list l by a single writer
Ingested(d, l) ==
  [key \in {document_kv_key(d)}
             \cup {keyword_shard_kv_key(k, shard_from_document_id(d, n_shards)) : k \in KwSet(l)} |->
     IF key = document_kv_key(d)
       THEN [NewDocument(d) EXCEPT !.keywords = l, !.revision = RevisionIncremented(@)]
       ELSE add_document(NewShard(key[2], key[3]), d,
                         (CHOOSE e \in Range(l) : e[1] = key[2])[2]).shard]

\* two overlapping requests for document d1: both handlers have loaded the document
\* (a new one, or the one ingested before) and neither has persisted yet
InitOverlap ==
  /\ Config
  /\ writers = Writers
  /\ \E l \in KeywordLists :
       /\ kv = IF l = <<>> THEN EmptyKv ELSE Ingested("d1", l)
       /\ self_doc = [p \in Writers |->
                        IF l = <<>> THEN NewDocument("d1")
                                    ELSE KvGet(kv, document_kv_key("d1"))]
  /\ pc = [p \in Writers |-> "update"]
  /\ old_kw = [p \in Writers |-> <<>>]
  /\ futs = [p \in Writers |-> NoFutures]
  /\ started = 0
  /\ NoShardObject
  /\ NoQuery
  /\ NoBulkRead
  /\ NoCodec
  /\ NoKeywordRequest
  /\ NoSearchRequest
  /\ NoCancellation
  /\ NoClientRequest
  /\ NoRouterRequest

\* both requests have returned
BothCompleted == \A p \in writers : Completed(p)

\* the two overlapping updates, and then one further update by a single writer
NextOverlap ==
  \/ \E p \in writers : BothCompleted /\ started = 0 /\ HandleUpdateDocument(p, "d1")
  \/ \E p \in writers, l \in KeywordLists : UpdateWrite(p, l)
  \/ \E p \in writers, k \in Keywords : FromKeywordRead(p, k)
  \/ \E p \in writers, k \in Keywords : FromKeywordCreate(p, k)
  \/ \E p \in writers, k \in Keywords : ShardWrite(p, k)
  \/ \E p \in writers : UpdateReturn(p)

SpecOverlap == InitOverlap /\ [][NextOverlap]_vars

\* get_index_key of the index
get_index_key == <<"index">>

INDEX_VERSION_V1 == 1

IndexDocument == [found |-> TRUE, docs_count |-> 0, version |-> INDEX_VERSION_V1,
                  created |-> Now(0)]

\* IndexManager::create_index, called by handle_create: PUT /:index
create_index(store) ==
  IF KvGet(store, get_index_key).found THEN store
  ELSE KvPut(store, get_index_key, IndexDocument)

\* IndexManager::delete_index, called by handle_delete: DELETE /:index
delete_index(store) == [key \in DOMAIN store \ {get_index_key} |-> store[key]]

HandleCreate ==
  /\ kv' = create_index(kv)
  /\ UNCHANGED <<n_shards, hashOf, docVars, shVars, qVars, bVars, cVars, gVars, xVars, clVars, pVars, aVars>>

HandleDelete ==
  /\ kv' = delete_index(kv)
  /\ UNCHANGED <<n_shards, hashOf, docVars, shVars, qVars, bVars, cVars, gVars, xVars, clVars, pVars, aVars>>

\* document requests of one writer, with the index created and dropped at any time
NextIndexed == Next \/ HandleCreate \/ HandleDelete

SpecIndexed == InitSingle /\ [][NextIndexed]_vars

\* a loaded shard object and a sequence of calls on it
InitShard ==
  /\ Config
  /\ IdleWriters({})
  /\ \E k \in Keywords, n \in 0..1, l \in ShardDocLists :
       /\ sh = [NewShard(k, n) EXCEPT !.docs = l]
       /\ kv = KvPut(EmptyKv, keyword_shard_kv_key(k, n), sh)
  /\ sh_calls = <<>>
  /\ sh_in \in {q \in SeqsUpTo(ShardCallInputs, MaxCalls) : Len(q) = MaxCalls}
  /\ NoQuery
  /\ NoBulkRead
  /\ NoCodec
  /\ NoKeywordRequest
  /\ NoSearchRequest
  /\ NoCancellation
  /\ NoClientRequest
  /\ NoRouterRequest

NextShard == ShardCall

SpecShard == InitShard /\ [][NextShard]_vars

\* a parsed query whose keyword data is preloaded (self.result cleared)
InitQuery ==
  /\ Config
  /\ kv = EmptyKv
  /\ IdleWriters({})
  /\ NoShardObject
  /\ q_pc = "loaded"
  /\ q_ast \in Asts
  /\ kw_cache \in [Range(collect_keywords(q_ast)) -> PostingLists]
  /\ q_result = EmptyMatches
  /\ q_ret = EmptyMatches
  /\ q_log = <<>>
  /\ q_calls = <<>>
  /\ q_rows = <<>>
  /\ NoBulkRead
  /\ NoCodec
  /\ NoKeywordRequest
  /\ NoSearchRequest
  /\ NoCancellation
  /\ NoClientRequest
  /\ NoRouterRequest

NextQuery == Query

SpecQuery == InitQuery /\ [][NextQuery]_vars

\* document requests of one writer, and one request to the keyword endpoint
NextKeyword ==
  \/ g_resp.keyword = "" /\ Next
  \/ \E k \in Keywords : HandleGetKeyword(k)

SpecKeyword == InitSingle /\ [][NextKeyword]_vars

\* the ASTs of the searches made over the documents written
SearchAsts == UNION {AstsOfSize(n) : n \in 1..MaxSearchNodes}

\* document requests of one writer, and then one search
NextSearch ==
  \/ q_pc = "none" /\ Next
  \/ \E ast \in SearchAsts : Quiescent /\ NewQuery(ast)
  \/ Preload
  \/ Query

SpecSearch == InitSingle /\ [][NextSearch]_vars

\* what POST /x:kw:a/doc/<d> with extracted keywords [(b, 1)] leaves in KV, and
\* what is left of it after DELETE /x:kw:a/doc/<d>
\* a delete that also sweeps the postings of the document
DeleteSweepsShards(store, kv_key) ==
  [key \in DOMAIN store \ {kv_key} |->
     IF key[1] = "kw"
       THEN [store[key] EXCEPT !.docs = SelectSeq(@, LAMBDA e : e[1] # kv_key[2])]
       ELSE store[key]]

\* Document::delete: the document key is removed, the postings stay
delete(store, kv_key) == [key \in DOMAIN store \ {kv_key} |-> store[key]]

OtherIndexKv(d, deleted) ==
  LET shard == shard_from_document_id(d, n_shards)
      posted == add_document(NewShard("b", shard), d, 1).shard
      doc == [NewDocument(d) EXCEPT !.revision = RevisionIncremented(@),
                                    !.keywords = <<<<"b", 1>>>>]
      shard_key == InOtherIndex(keyword_shard_kv_key("b", shard))
      doc_key == InOtherIndex(document_kv_key(d))
      ingested == [key \in {shard_key, doc_key} |->
                     IF key = shard_key THEN posted ELSE doc]
  IN IF deleted THEN delete(ingested, doc_key) ELSE ingested

\* handle_delete_document: DELETE /:index/doc/:id, Ok whether the key existed or not
HandleDeleteDocument(d) ==
  /\ kv' = delete(kv, document_kv_key(d))
  /\ UNCHANGED <<n_shards, hashOf, docVars, shVars, qVars, bVars, cVars, gVars, xVars, clVars,
                 aVars, pVars>>

\* document requests and deletions of one writer, and then one search
NextDelete ==
  \/ q_pc = "none" /\ Next
  \/ \E d \in Docs : q_pc = "none" /\ Quiescent /\ HandleDeleteDocument(d)
  \/ \E ast \in SearchAsts : Quiescent /\ NewQuery(ast)
  \/ Preload
  \/ Query

SpecDelete == InitSingle /\ [][NextDelete]_vars

\* keywords of ingested documents: a plain one and ones that hold +, &, = or %
IngestKeywords == {"a", "a+b", "a&b", "a=b", "a%62", "%"}

\* one document ingested under one keyword, and then one search
InitDecode ==
  /\ Config
  /\ \E d \in Docs, k \in IngestKeywords : kv = Ingested(d, <<<<k, 1>>>>)
  /\ IdleWriters({})
  /\ NoShardObject
  /\ NoQuery
  /\ NoBulkRead
  /\ NoCodec
  /\ NoKeywordRequest
  /\ NoSearchRequest
  /\ NoCancellation
  /\ NoClientRequest
  /\ NoRouterRequest

NextDecode ==
  \/ \E k \in IngestKeywords : NewQuery(Word(k))
  \/ Preload
  \/ Query

SpecDecode == InitDecode /\ [][NextDecode]_vars

\* the KV namespace is shared with the index named x:kw:a
InitKeywordShared ==
  /\ Config
  /\ \E d \in Docs, deleted \in BOOLEAN : kv = OtherIndexKv(d, deleted)
  /\ IdleWriters({1})
  /\ NoShardObject
  /\ NoQuery
  /\ NoBulkRead
  /\ NoCodec
  /\ NoKeywordRequest
  /\ NoSearchRequest
  /\ NoCancellation
  /\ NoClientRequest
  /\ NoRouterRequest

SpecKeywordShared == InitKeywordShared /\ [][NextKeyword]_vars

\* N_SHARDS: the default; for keyword reads also one that leaves two keys per
\* request, for document reads also one whose keyword limit admits a document chunk
BulkShardCounts(read_type) ==
  IF read_type = "/keywords" THEN {DEFAULT_N_SHARDS, 500} ELSE {DEFAULT_N_SHARDS, 1}

\* sizes of a bulk read: keyword shards up to MaxChunks chunks, documents few or
\* around the limits
BulkSizes(read_type, shards) ==
  IF read_type = "/keywords"
    THEN 0..((MaxChunks - 1) * get_keyword_limit(shards) + 1)
    ELSE (0..2) \cup {get_document_limit - 1, get_document_limit, get_document_limit + 1,
                      DocumentChunk, DocumentChunk + 1}

BulkKeys(read_type, n) ==
  [i \in 1..n |-> IF read_type = "/keywords" THEN keyword_shard_kv_key("a", i - 1)
                                             ELSE document_kv_key(i)]

\* the position of a key of BulkKeys
KeyNo(key) == IF key[1] = "kw" THEN key[3] + 1 ELSE key[2]

\* a bulk read of n keys, some of which may be absent from KV; the value of the
\* i-th key is the text of record i
InitBulk ==
  /\ hashOf \in {h \in HashTables : h["d2"] = 49}
  /\ b_type \in {"/keywords", "/documents"}
  /\ n_shards \in BulkShardCounts(b_type)
  /\ IdleWriters({})
  /\ NoShardObject
  /\ NoQuery
  /\ NoCodec
  /\ NoKeywordRequest
  /\ NoSearchRequest
  /\ NoCancellation
  /\ NoClientRequest
  /\ NoRouterRequest
  /\ b_pc = "start"
  /\ \E n \in BulkSizes(b_type, n_shards) :
       /\ b_keys = BulkKeys(b_type, n)
       /\ \E absent \in SUBSET ({1, 2, n} \cap (1..n)) :
            kv = [key \in {b_keys[i] : i \in (1..n) \ absent} |-> Json(KeyNo(key))]
  /\ b_reqs = <<>>
  /\ b_resps = <<>>
  /\ b_out = NoResult
  /\ b_gets = 0
  /\ b_calls = 0

NextBulk ==
  \/ BulkDirect
  \/ BulkDispatch
  \/ \E c \in 1..Len(b_reqs) : ActorFetch(c)
  \/ BulkCollect

SpecBulk == InitBulk /\ [][NextBulk]_vars

\* what a frame may carry: nothing, or the text of a record
Payloads == {<<>>, Json(1), Json(2)}

InitCodec ==
  /\ hashOf \in {h \in HashTables : h["d2"] = 49}
  /\ n_shards = DEFAULT_N_SHARDS
  /\ kv = EmptyKv
  /\ IdleWriters({})
  /\ NoShardObject
  /\ NoQuery
  /\ NoBulkRead
  /\ c_pc = "encode"
  /\ c_xs \in SeqsUpTo(Payloads, MaxPayloads)
  /\ c_buf = <<>>
  /\ c_out = NoResult
  /\ NoKeywordRequest
  /\ NoSearchRequest
  /\ NoCancellation
  /\ NoClientRequest
  /\ NoRouterRequest

NextCodec == Encode \/ Decode

\* bytes of buffers that no encoder wrote: lengths and the braces of a text
BufferBytes == {0, 1, 4, 123, 125}

\* framed payloads that may arrive cut short, and arbitrary short buffers
InitFrames ==
  /\ hashOf \in {h \in HashTables : h["d2"] = 49}
  /\ n_shards = DEFAULT_N_SHARDS
  /\ kv = EmptyKv
  /\ IdleWriters({})
  /\ NoShardObject
  /\ NoQuery
  /\ NoBulkRead
  /\ \/ /\ c_pc = "encode"
        /\ c_xs \in SeqsUpTo(Payloads, MaxPayloads)
        /\ c_buf = <<>>
     \/ /\ c_pc = "decode"
        /\ c_xs = <<>>
        /\ c_buf \in SeqsUpTo(BufferBytes, MaxPayloads + 1)
  /\ c_out = NoResult
  /\ NoKeywordRequest
  /\ NoSearchRequest
  /\ NoCancellation
  /\ NoClientRequest
  /\ NoRouterRequest

NextFrames ==
  \/ Encode
  \/ \E n \in 0..(8 * MaxPayloads) : Truncate(n)
  \/ Decode

SpecFrames == InitFrames /\ [][NextFrames]_vars

SpecCodec == InitCodec /\ [][NextCodec]_vars

ShortQueries == UNION {[1..n -> QueryChars] : n \in 0..MaxQueryLen}

Sentence(tokens, expr) == [tokens |-> tokens, expr |-> expr]

\* the token sequences of at most n tokens that the grammar
\*   Or := And ("||" And)*   And := Not ("&&" Not)*
\*   Not := "~" Primary | Primary   Primary := WORD | "(" Or ")"
\* derives, each with the expression it stands for
RECURSIVE OrSentences(_)
RECURSIVE AndSentences(_)
RECURSIVE PrimarySentences(_)

PrimarySentences(n) ==
  IF n < 1 THEN {}
  ELSE {Sentence(<<TokenWord(w)>>, Word(w)) : w \in QueryWords}
       \cup {Sentence(<<Token("LParen")>> \o s.tokens \o <<Token("RParen")>>, s.expr)
               : s \in OrSentences(n - 2)}

NotSentences(n) ==
  PrimarySentences(n)
    \cup {Sentence(<<Token("Not")>> \o s.tokens, Not(s.expr)) : s \in PrimarySentences(n - 1)}

AndSentences(n) ==
  IF n < 1 THEN {}
  ELSE NotSentences(n)
       \cup {Sentence(x[1].tokens \o <<Token("And")>> \o x[2].tokens,
                      And(x[1].expr, x[2].expr))
               : x \in {y \in AndSentences(n - 2) \X NotSentences(n - 2)
                          : Len(y[1].tokens) + 1 + Len(y[2].tokens) <= n}}

OrSentences(n) ==
  IF n < 1 THEN {}
  ELSE AndSentences(n)
       \cup {Sentence(x[1].tokens \o <<Token("Or")>> \o x[2].tokens,
                      Or(x[1].expr, x[2].expr))
               : x \in {y \in OrSentences(n - 2) \X AndSentences(n - 2)
                          : Len(y[1].tokens) + 1 + Len(y[2].tokens) <= n}}

Sentences == OrSentences(MaxTokens)

\* the text of a token, as tokenize reads it
TokenText(token) ==
  CASE token.t = "Word" -> <<Quote, token.word, Quote>>
    [] token.t = "And" -> <<"&", "&">>
    [] token.t = "Or" -> <<"|", "|">>
    [] token.t = "Not" -> <<"~">>
    [] token.t = "LParen" -> <<"(">>
    [] token.t = "RParen" -> <<")">>

RECURSIVE QueryText(_)
QueryText(tokens) ==
  IF tokens = <<>> THEN <<>> ELSE TokenText(Head(tokens)) \o QueryText(Tail(tokens))

\* the query (a && b) || ~(c), and the same with its words quoted
BareExample ==
  <<"(", "a", " ", "&", "&", " ", "b", ")", " ", "|", "|", " ", "~", "(", "c", ")">>

QuotedExample ==
  <<"(", Quote, "a", Quote, " ", "&", "&", " ", Quote, "b", Quote, ")", " ", "|", "|", " ",
    "~", "(", Quote, "c", Quote, ")">>

ExampleQueries == {BareExample, QuotedExample}

\* one request GET /:index/search?query=..: any short string, the text of a
\* sentence of the grammar, or one of the examples
InitParse ==
  /\ hashOf \in {h \in HashTables : h["d2"] = 49}
  /\ n_shards = DEFAULT_N_SHARDS
  /\ kv = EmptyKv
  /\ IdleWriters({})
  /\ NoShardObject
  /\ NoQuery
  /\ NoBulkRead
  /\ NoCodec
  /\ NoKeywordRequest
  /\ p_pc = "request"
  /\ p_query \in ShortQueries \cup {QueryText(s.tokens) : s \in Sentences} \cup ExampleQueries
  /\ p_tokens = NoTokens
  /\ p_ast = NoAst
  /\ p_resp = NoSearchResponse
  /\ p_printed = <<>>
  /\ NoRouterRequest
  /\ NoClientRequest
  /\ NoCancellation

NextParse == Tokenize \/ Parse \/ Execute

SpecParse == InitParse /\ [][NextParse]_vars

\* words of the client: plain ones, the empty one, and ones with characters of
\* the query syntax; none holds a double quote
ClientWords == {"a", "b", "", "&", "a "}

RECURSIVE QueryExprsOfSize(_)
QueryExprsOfSize(n) ==
  IF n = 1 THEN {Word(w) : w \in ClientWords}
  ELSE {Not(e) : e \in QueryExprsOfSize(n - 1)}
       \cup UNION {{And(l, r) : l \in QueryExprsOfSize(i), r \in QueryExprsOfSize(n - 1 - i)}
                     : i \in 1..(n - 2)}
       \cup UNION {{Or(l, r) : l \in QueryExprsOfSize(i), r \in QueryExprsOfSize(n - 1 - i)}
                     : i \in 1..(n - 2)}

QueryExprs == UNION {QueryExprsOfSize(n) : n \in 1..MaxNodes}

\* one search of the client with a QueryExpr, up to the server's response
InitClient ==
  /\ hashOf \in {h \in HashTables : h["d2"] = 49}
  /\ n_shards = DEFAULT_N_SHARDS
  /\ kv = EmptyKv
  /\ IdleWriters({})
  /\ NoShardObject
  /\ NoQuery
  /\ NoBulkRead
  /\ NoCodec
  /\ NoKeywordRequest
  /\ NoRouterRequest
  /\ p_pc = "none"
  /\ p_query = <<>>
  /\ p_tokens = NoTokens
  /\ p_ast = NoAst
  /\ p_resp = NoSearchResponse
  /\ p_printed = <<>>
  /\ cl_expr \in QueryExprs
  /\ NoCancellation

NextClient == SearchExpr \/ Tokenize \/ Parse \/ Execute

SpecClient == InitClient /\ [][NextClient]_vars

\* the values of API_KEY and of the X-API-Key header
ApiKeys == {"", "k1", "k2"}

\* one request to the router, with API_KEY set or not and the header present or not
InitAuth ==
  /\ hashOf \in {h \in HashTables : h["d2"] = 49}
  /\ n_shards = DEFAULT_N_SHARDS
  /\ kv = EmptyKv
  /\ IdleWriters({})
  /\ NoShardObject
  /\ NoQuery
  /\ NoBulkRead
  /\ NoCodec
  /\ NoKeywordRequest
  /\ NoSearchRequest
  /\ NoCancellation
  /\ NoClientRequest
  /\ a_pc = "request"
  /\ a_key \in {<<>>} \cup {[n \in {ENV_VAR_API_KEY} |-> k] : k \in ApiKeys}
  /\ a_req \in [route : ProtectedRoutes \cup OpenRoutes,
                header : {Absent} \cup {Present(k) : k \in ApiKeys}]
  /\ a_auth = FALSE
  /\ a_resp = NoRouterResponse

NextAuth == CheckAuth \/ Authorized \/ Unauthorized \/ Unprotected

SpecAuth == InitAuth /\ [][NextAuth]_vars

(***************************************************************************)
(* Properties of the document update and of the posting shards.            *)
(***************************************************************************)
ShardAt(k, d) == KvGet(kv, keyword_shard_kv_key(k, shard_from_document_id(d, n_shards)))

ScoreOf(docs, doc_id) == (CHOOSE e \in Range(docs) : e[1] = doc_id)[2]

\* C1: when an update of document D by a single writer has completed, the shard
\* shard_of(D.id) of every keyword of D.keywords holds D.id exactly once, and the
\* shard of every keyword the update dropped from D.keywords does not hold D.id.
C1_KeywordDocConsistency ==
  \A p \in writers :
    pc[p] = "done" =>
      LET d == self_doc[p].uuid
      IN /\ \A k \in KwSet(self_doc[p].keywords) :
              /\ ShardAt(k, d).found
              /\ CountDoc(ShardAt(k, d).docs, d) = 1
         /\ \A k \in KwSet(old_kw[p]) \ KwSet(self_doc[p].keywords) :
              ShardAt(k, d).found => ~HasDoc(ShardAt(k, d).docs, d)

\* a second update of a document has completed; it dropped a keyword and kept or
\* added another
C1_Witness ==
  \E p \in writers :
    /\ pc[p] = "done"
    /\ self_doc[p].revision = 2
    /\ KwSet(old_kw[p]) \ KwSet(self_doc[p].keywords) # {}
    /\ KwSet(self_doc[p].keywords) # {}

\* C2: under any interleaving of concurrent requests, the docs list of every
\* persisted keyword shard holds each doc-id at most once.
C2_NoDuplicateDocIds ==
  \A key \in DOMAIN kv :
    key[1] = "kw" =>
      \A i, j \in 1..Len(kv[key].docs) :
        kv[key].docs[i][1] = kv[key].docs[j][1] => i = j

\* two requests have read the same baseline of one shard and both are about to
\* put their own copy of it back
C2_Witness ==
  \E k \in Keywords :
    /\ k \in DOMAIN futs[1] /\ k \in DOMAIN futs[2]
    /\ futs[1][k].st = "put" /\ futs[2][k].st = "put"
    /\ ShardKeyOf(1, k) = ShardKeyOf(2, k)
    /\ Len(futs[1][k].local.docs) = 1 /\ Len(futs[2][k].local.docs) = 1

\* the calls i and i+1 on the shard object are add_document of the same doc-id
AddedTwice(i) ==
  /\ i + 1 <= Len(sh_calls)
  /\ sh_calls[i].op = "add" /\ sh_calls[i + 1].op = "add"
  /\ sh_calls[i].doc_id = sh_calls[i + 1].doc_id

\* C10 as stated: after add_document(d, s1); add_document(d, s2) the shard holds
\* exactly one entry for d, its score is s1, and the second call writes nothing.
C10_AddTwiceKeepsFirstArgument ==
  \A i \in 1..Len(sh_calls) :
    AddedTwice(i) =>
      LET c == sh_calls[i + 1]
      IN /\ CountDoc(c.after, c.doc_id) = 1
         /\ ScoreOf(c.after, c.doc_id) = sh_calls[i].score
         /\ ~c.wrote

\* C10 amended: the shard holds exactly one entry for d, whose score is s1 when d
\* was absent before the first call and the score it already had otherwise; the
\* second call writes nothing, and the persisted shard is the in-memory one.
C10_AddTwiceKeepsFirstWritten ==
  \A i \in 1..Len(sh_calls) :
    AddedTwice(i) =>
      LET c == sh_calls[i + 1]
          b == sh_calls[i].before
      IN /\ CountDoc(c.after, c.doc_id) = 1
         /\ ScoreOf(c.after, c.doc_id) =
              IF HasDoc(b, c.doc_id) THEN ScoreOf(b, c.doc_id) ELSE sh_calls[i].score
         /\ ~c.wrote
         /\ c.stored = sh_calls[i].stored
         /\ KvGet(c.stored, keyword_shard_kv_key(sh.keyword, sh.shard)).docs = c.after

\* two adds of an absent doc-id with different scores have been made
C10_Witness ==
  \E i \in 1..Len(sh_calls) :
    /\ AddedTwice(i)
    /\ ~HasDoc(sh_calls[i].before, sh_calls[i].doc_id)
    /\ sh_calls[i].score # sh_calls[i + 1].score

\* C12: a new document starts at rev 0, and the put of every Document::update
\* persists a rev exactly one greater than the rev the document had when the
\* update started (the rev loaded from KV, or 0 for a new document).
C12_UpdatePersistsNextRev ==
  [][\A p \in writers :
       /\ (pc[p] # "update" /\ pc'[p] = "update") =>
            LET stored == KvGet(kv, document_kv_key(self_doc'[p].uuid))
            IN self_doc'[p].revision = IF stored.found THEN stored.revision ELSE 0
       /\ (pc[p] = "update" /\ pc'[p] = "shards") =>
            /\ KvGet(kv', document_kv_key(self_doc[p].uuid)).revision
                 = self_doc[p].revision + 1
            /\ self_doc'[p].revision = self_doc[p].revision + 1
       /\ (pc[p] = "shards" /\ pc'[p] = "done" /\ Cardinality(writers) = 1) =>
            KvGet(kv, document_kv_key(self_doc[p].uuid)).revision = self_doc'[p].revision
    ]_vars

\* a document has been ingested and then updated: its persisted rev is 2
C12_Witness ==
  \E p \in writers :
    /\ pc[p] = "done"
    /\ started = 2
    /\ self_doc[p].revision = 2
    /\ KvGet(kv, document_kv_key(self_doc[p].uuid)).revision = 2

\* the shard numbers of keyword k whose key exists in KV
ExistingShards(k) ==
  {key[3] : key \in {x \in DOMAIN kv : x[1] = "kw" /\ x[2] = k}}

\* the doc-ids in some posting of keyword k
PostedDocs(k) ==
  UNION {{e[1] : e \in Range(kv[key].docs)} :
           key \in {x \in DOMAIN kv : x[1] = "kw" /\ x[2] = k}}

\* C13: after any sequence of document updates, the shard numbers of keyword k
\* whose key exists in KV are exactly { shard_of(d) : d in some posting of k }; no
\* existing shard key has an empty docs list.
C13_ExistingShardsAreThoseOfPostings ==
  Quiescent =>
    \A k \in Keywords :
      /\ ExistingShards(k) = {shard_from_document_id(d, n_shards) : d \in PostedDocs(k)}
      /\ \A n \in ExistingShards(k) : kv[keyword_shard_kv_key(k, n)].docs # <<>>

(***************************************************************************)
(* Properties of the keyword merger.                                       *)
(***************************************************************************)
ShardKeysOf(k) == {x \in DOMAIN kv : x[1] = "kw" /\ x[2] = k}

\* how often the posting e is stored in the shards of keyword k
StoredCount(k, e) ==
  Cardinality(UNION {{<<key, i>> : i \in {j \in 1..Len(kv[key].docs) : kv[key].docs[j] = e}} :
                       key \in ShardKeysOf(k)})

MergedCount(merged, e) == Cardinality({i \in 1..Len(merged) : merged[i] = e})

\* C14: merge_keyword_shards(k) returns every posting stored in an existing shard
\* of keyword k, as often as it is stored, and nothing else (no posting of another
\* keyword); the list is ordered by score, highest first.
C14_MergeReturnsThePostingsOfTheKeyword ==
  g_resp.keyword # "" =>
    /\ ~g_resp.panicked
    /\ \A e \in Docs \X Scores :
         MergedCount(g_resp.merged, e) = StoredCount(g_resp.keyword, e)
    /\ \A i \in 1..Len(g_resp.merged) : g_resp.merged[i] \in Docs \X Scores
    /\ \A i \in 1..(Len(g_resp.merged) - 1) : g_resp.merged[i][2] >= g_resp.merged[i + 1][2]

RemovedTwice(i) ==
  /\ i + 1 <= Len(sh_calls)
  /\ sh_calls[i].op = "remove" /\ sh_calls[i + 1].op = "remove"
  /\ sh_calls[i].doc_id = sh_calls[i + 1].doc_id

\* C11: after remove_document(d); remove_document(d) the shard does not contain d;
\* a remove_document writes to KV exactly when the docs list shrank, so the second
\* call, and any removal of an absent doc-id, writes nothing and leaves ts as it was.
C11_RemoveWritesOnlyWhenShrunk ==
  \A i \in 1..Len(sh_calls) :
    LET c == sh_calls[i]
    IN /\ c.op = "remove" =>
            /\ ~HasDoc(c.after, c.doc_id)
            /\ c.wrote <=> Len(c.after) < Len(c.before)
            /\ ~HasDoc(c.before, c.doc_id) =>
                 (~c.wrote /\ c.ts_after = c.ts_before /\ c.after = c.before)
            /\ LET stored == KvGet(c.stored, keyword_shard_kv_key(sh.keyword, sh.shard))
               IN stored.docs = c.after /\ stored.ts = c.ts_after
       /\ RemovedTwice(i) =>
            LET c2 == sh_calls[i + 1]
            IN /\ ~HasDoc(c2.after, c2.doc_id)
               /\ ~c2.wrote
               /\ c2.ts_after = c2.ts_before
               /\ c2.stored = c.stored

\* a doc-id the shard held has been removed twice: the first call wrote
C11_Witness ==
  \E i \in 1..Len(sh_calls) :
    /\ RemovedTwice(i)
    /\ HasDoc(sh_calls[i].before, sh_calls[i].doc_id)
    /\ sh_calls[i].wrote
    /\ sh_calls[i].ts_after # sh_calls[i].ts_before
    /\ ~sh_calls[i + 1].wrote

(***************************************************************************)
(* Properties of the query executor.                                       *)
(***************************************************************************)
DocIds(matches) == DOMAIN matches

KwsOf(matches, d) == IF d \in DOMAIN matches THEN matches[d] ELSE <<>>

RECURSIVE NotFree(_)
NotFree(expr) ==
  CASE expr.op = "Word" -> TRUE
    [] expr.op = "Not" -> FALSE
    [] OTHER -> NotFree(expr.left) /\ NotFree(expr.right)

\* C3: Not(e) evaluates to the entries of the ambient (the running result when the
\* evaluation of the Not node starts) whose doc-id is not in eval(e); for
\* And(Word a, Not(Word b)) the query returns the documents of a that b lacks.
C3_NotIsComplementInAmbient ==
  q_pc = "done" =>
    /\ \A i \in 1..Len(q_log) :
         q_log[i].expr.op = "Not" =>
           q_log[i].ret = NotMatches(q_log[i].ambient, q_log[i].kids[1])
    /\ \A a, b \in Keywords :
         q_ast = And(Word(a), Not(Word(b))) =>
           DocIds(q_ret) = DocIds(WordMatches(a)) \ DocIds(WordMatches(b))

\* eval(l)[d] followed by the (k, s) of eval(r)[d] whose keyword is not in eval(l)[d]
MergedKeywords(l, r, d) ==
  KwsOf(l, d) \o SelectSeq(KwsOf(r, d), LAMBDA e : ~HasKw(KwsOf(l, d), e[1]))

\* C4: in an AST of Word, And and Or only, And yields the intersection and Or the
\* union of the doc-ids of its operands, each document's keywords are those of the
\* left operand followed by the new ones of the right operand, and no keyword
\* occurs twice in a keywords list.
C4_AndOrAreIntersectionAndUnion ==
  (q_pc = "done" /\ NotFree(q_ast)) =>
    /\ q_ret = q_log[Len(q_log)].ret
    /\ \A i \in 1..Len(q_log) :
         LET n == q_log[i]
         IN /\ n.expr.op = "And" =>
                 DocIds(n.ret) = DocIds(n.kids[1]) \cap DocIds(n.kids[2])
            /\ n.expr.op = "Or" =>
                 DocIds(n.ret) = DocIds(n.kids[1]) \cup DocIds(n.kids[2])
            /\ n.expr.op \in {"And", "Or"} =>
                 \A d \in DocIds(n.ret) : n.ret[d] = MergedKeywords(n.kids[1], n.kids[2], d)
            /\ \A d \in DocIds(n.ret) :
                 \A x, y \in 1..Len(n.ret[d]) : n.ret[d][x][1] = n.ret[d][y][1] => x = y

\* an And and an Or were evaluated; one of them met a keyword on its right that
\* the document already had from its left, and a document that only one operand of
\* an And holds was dropped
C4_Witness ==
  /\ q_pc = "done" /\ NotFree(q_ast)
  /\ \E i, j \in 1..Len(q_log) :
       /\ q_log[i].expr.op = "And" /\ q_log[j].expr.op = "Or"
       /\ DocIds(q_log[i].ret) # DocIds(q_log[i].kids[1])
  /\ \E i \in 1..Len(q_log) : \E d \in DocIds(q_log[i].ret) :
       /\ q_log[i].expr.op \in {"And", "Or"}
       /\ Len(q_log[i].ret[d]) = 2
       /\ Len(KwsOf(q_log[i].kids[1], d)) + Len(KwsOf(q_log[i].kids[2], d)) > 2

\* C16: a row with keyword matches [(k1,s1)..(km,sm)] has m >= 1; its score is s1
\* when m = 1 and the arithmetic mean of s1..sm when m > 1.
C16_RowScoreIsMeanOfMatches ==
  \A i \in 1..Len(q_rows) :
    LET row == q_rows[i]
        m == Len(row.keywords)
    IN /\ m >= 1
       /\ row.keywords = q_ret[row.doc_id]
       /\ row.score.den > 0
       /\ m = 1 => row.score.num = row.keywords[1][2] * row.score.den
       /\ m > 1 => row.score.num * m = SumScores(row.keywords) * row.score.den

\* a query returned a row of one match and a row of two matches with different scores
C16_Witness ==
  /\ q_pc = "done"
  /\ \E i, j \in 1..Len(q_rows) :
       /\ Len(q_rows[i].keywords) = 1
       /\ Len(q_rows[j].keywords) = 2
       /\ q_rows[j].keywords[1][2] # q_rows[j].keywords[2][2]

\* C17: a query whose AST root is Not returns no row (document_count 0), whatever
\* the keyword data of the index.
C17_TopLevelNotIsEmpty ==
  (q_pc = "done" /\ q_ast.op = "Not") => (q_rows = <<>> /\ DocIds(q_ret) = {})

\* ~"a" has been run on an index where a has postings
C17_Witness ==
  /\ q_pc = "done"
  /\ q_ast.op = "Not"
  /\ q_ast.left.op = "Word"
  /\ kw_cache[q_ast.left.word] # <<>>
  /\ q_rows = <<>>

(***************************************************************************)
(* Bulk reads and the framing codec.                                       *)
(***************************************************************************)
AllPresent == \A i \in 1..Len(b_keys) : b_keys[i] \in DOMAIN kv

CeilDiv(n, d) == (n + d - 1) \div d

\* C5: a bulk read of n existing keyword-shard keys returns exactly the n records,
\* one per key and in order; below keyword_limit it makes n direct gets and no
\* actor call, at or above it no direct get and ceil(n / keyword_limit) actor calls.
C5_KeywordBulkReadReturnsAll ==
  (b_pc = "done" /\ b_type = "/keywords" /\ AllPresent) =>
    LET n == Len(b_keys)
        keyword_limit == get_keyword_limit(n_shards)
    IN /\ ~b_out.panic
       /\ b_out.items = [i \in 1..n |-> i]
       /\ n < keyword_limit => (b_gets = n /\ b_calls = 0)
       /\ n >= keyword_limit => (b_gets = 0 /\ b_calls = CeilDiv(n, keyword_limit))

\* 25 shard keys with N_SHARDS = 48 have been read through two actor calls
C5_Witness ==
  /\ b_pc = "done"
  /\ b_type = "/keywords"
  /\ n_shards = DEFAULT_N_SHARDS
  /\ Len(b_keys) = 25
  /\ AllPresent
  /\ b_calls = 2
  /\ b_gets = 0
  /\ Len(b_out.items) = 25

\* the ceiling of a read category
Ceiling(read_type) ==
  IF read_type = "/keywords" THEN get_keyword_limit(n_shards) ELSE get_document_limit

\* C6: every chunk the bulk reader dispatches has at most `ceiling` keys
\* (keyword_limit for /keywords, 990 for /documents) and is not rejected with 400
\* by the durable reader; a 400 of the actor goes with no KV read.
C6_ChunksWithinCeilingAndAccepted ==
  \A c \in 1..Len(b_reqs) :
    /\ Len(parse_body(b_reqs[c])) <= Ceiling(b_type)
    /\ b_resps[c].handled =>
         /\ b_resps[c].status # 400
         /\ (Len(parse_body(b_reqs[c])) = 0 => b_resps[c].status = 400)
         /\ (b_resps[c].status = 400 => b_resps[c].gets = 0)

\* the payloads of a request when a missing key yields an empty payload in place
PayloadsInPlace(store, keywords) ==
  [i \in 1..Len(keywords) |->
     IF keywords[i] \in DOMAIN store THEN store[keywords[i]] ELSE <<>>]

\* C7: an accepted request of k keys is answered with exactly k frames in request
\* order, frame i holding the stored value of key i, or nothing when key i is
\* missing from KV.
C7_OneFramePerKeyInOrder ==
  \A c \in 1..Len(b_reqs) :
    (b_resps[c].handled /\ b_resps[c].status # 400) =>
      /\ ~b_resps[c].panicked
      /\ b_resps[c].body =
           FrameAll(PayloadsInPlace(kv, parse_body(b_reqs[c])), <<>>)

\* C8: a bulk read of a key list with absent keys completes without a panic, each
\* absent key counting as an empty payload.
C8_AbsentKeysDoNotPanic ==
  (b_pc = "done" /\ ~AllPresent) => ~b_out.panic

\* handle_search with full=true: documents[i].body = full_doc_bodies[i].document_body
\* for i in 0..documents.len(); an index past the end of full_doc_bodies panics
populate_bodies(doc_kv_keys, full_doc_bodies) ==
  IF full_doc_bodies.panic \/ Len(full_doc_bodies.items) < Len(doc_kv_keys)
    THEN Panicked
    ELSE [panic |-> FALSE,
          items |-> [i \in 1..Len(doc_kv_keys) |-> full_doc_bodies.items[i]]]

\* C18: a search with full=true gives every result row i the stored body of the
\* document whose id is row i's doc_id, on the direct and on the durable-reader
\* path and for any number of results.
C18_BodiesMatchRowsInOrder ==
  (b_pc = "done" /\ b_type = "/documents" /\ AllPresent) =>
    LET rows == populate_bodies(b_keys, b_out)
    IN /\ ~rows.panic
       /\ \A i \in 1..Len(b_keys) : rows.items[i] = KeyNo(b_keys[i])

\* C9: decoding the concatenation of the length-prefixed encodings of xs yields as
\* many payloads as xs has, with the same contents in the same order, zero-length
\* payloads included.
C9_DecodeEncodeRoundTrip ==
  c_pc = "done" =>
    /\ ~c_out.panic
    /\ Len(c_out.items) = Len(c_xs)
    /\ \A i \in 1..Len(c_xs) : c_xs[i] = Json(c_out.items[i])

\* the kinds of the tokens, whatever the words
Kinds(tokens) == [i \in 1..Len(tokens) |-> tokens[i].t]

SentenceKinds == {Kinds(s.tokens) : s \in Sentences}

\* the token sequence is a sentence of the grammar
Derivable(tokens) == Kinds(tokens) \in SentenceKinds

\* C19: a query string that the grammar does not derive (a lexical error, the empty
\* query, a dangling operator, an unbalanced parenthesis, tokens left over after a
\* complete expression) is answered with the 400 parse error, without a panic and
\* without a KV read.
C19_MalformedQueryIs400 ==
  (p_pc = "done" /\ ~(p_tokens.ok /\ Derivable(p_tokens.tokens))) =>
    /\ p_resp.status = 400
    /\ ~p_resp.panicked
    /\ p_resp.lists = 0

\* C20: for a token sequence that the grammar derives, the parser returns the
\* expression of its derivation: Or loosest, And tighter, Not tightest and on one
\* Primary, chains of && and of || grouped to the left.
C20_ParserReturnsTheAstOfTheGrammar ==
  (p_pc \in {"parsed", "done"} /\ p_tokens.ok) =>
    \A s \in Sentences :
      s.tokens = p_tokens.tokens => (p_ast.ok /\ p_ast.expr = s.expr)

\* "a" || "b" && ~"c" was parsed to Or(Word a, And(Word b, Not(Word c)))
C20_Witness ==
  /\ p_pc = "done"
  /\ p_tokens.tokens = <<TokenWord("a"), Token("Or"), TokenWord("b"), Token("And"),
                         Token("Not"), TokenWord("c")>>
  /\ p_ast.ok
  /\ p_ast.expr = Or(Word("a"), And(Word("b"), Not(Word("c"))))

\* parsing a printed expression
Reparsed(text) ==
  IF tokenize(text).ok THEN parse(tokenize(text).tokens) ELSE NoAst

\* C21: parsing (a && b) || ~(c) yields Or(And(Word a, Word b), Not(Word c)), whose
\* Display is that same string; and parsing the Display of any parsed AST yields
\* the same AST again.
C21_DisplayParseRoundTrip ==
  /\ (p_pc = "done" /\ p_query = BareExample) =>
        /\ p_ast.ok
        /\ p_ast.expr = Or(And(Word("a"), Word("b")), Not(Word("c")))
        /\ p_printed = BareExample
  /\ (p_pc = "done" /\ p_ast.ok) => Reparsed(p_printed) = p_ast

\* C22: a request to a protected endpoint is served without any X-API-Key header
\* when API_KEY is not configured; when it is configured the request is served
\* exactly when its header equals the configured value, and otherwise gets 401
\* with the handler not run.
C22_ApiKeyGate ==
  (a_pc = "done" /\ a_req.route \in ProtectedRoutes) =>
    IF ENV_VAR_API_KEY \notin DOMAIN a_key
      THEN a_resp.handled
      ELSE IF a_req.header = Present(a_key[ENV_VAR_API_KEY])
        THEN a_resp.handled
        ELSE a_resp.status = 401 /\ ~a_resp.handled

\* C23: a request that writes a document key or a keyword shard key is accepted only
\* if the index descriptor exists when the request is handled; a request to an
\* index that was never created, or was dropped, is rejected and writes nothing.
C23_WritesNeedTheIndex ==
  [][\A p \in writers :
       (pc[p] # "update" /\ pc'[p] = "update") => KvGet(kv, get_index_key).found]_vars

\* C24: during Document.update a failure of a per-keyword shard step (loading or
\* creating the shard, writing it back) is swallowed: the update does not abort,
\* the remaining steps run and it returns Ok(rev), and the persisted document is
\* not rolled back.
C24_ShardFailuresAreSwallowed ==
  \A p \in writers :
    /\ pc[p] # "panicked"
    /\ pc[p] \in {"shards", "done"} =>
         KvGet(kv, document_kv_key(self_doc[p].uuid)) = self_doc[p]

\* C25: for a QueryExpr e whose words hold no double quote, the server's tokenizer
\* and parser accept e.to_query_string() and return the AST structurally equal to e.
C25_ServerParsesClientQueries ==
  (cl_expr # Nil /\ p_pc \in {"parsed", "done"}) =>
    /\ p_tokens.ok
    /\ p_ast.ok
    /\ p_ast.expr = cl_expr

\* the client's ("&" && ~("a ")) was sent, parsed and run
C25_Witness ==
  /\ p_pc = "done"
  /\ p_resp.status = 200
  /\ cl_expr = And(Word("&"), Not(Word("a ")))
  /\ p_ast.expr = cl_expr

\* the characters of a word are all alphanumeric
Alphanumeric(word) == \A i \in 1..Len(Chars(word)) : Chars(word)[i] \in {"a", "b", "c"}

\* the query string with a word quoted exactly when it holds a non-alphanumeric
\* character
RECURSIVE QuotedWhenNeeded(_)
QuotedWhenNeeded(expr) ==
  CASE expr.op = "Word" ->
         IF Alphanumeric(expr.word) THEN Chars(expr.word)
         ELSE <<Quote>> \o Chars(expr.word) \o <<Quote>>
    [] expr.op = "Not" -> <<"~", "(">> \o QuotedWhenNeeded(expr.left) \o <<")">>
    [] expr.op = "And" ->
         <<"(">> \o QuotedWhenNeeded(expr.left) \o <<" ", "&", "&", " ">>
                 \o QuotedWhenNeeded(expr.right) \o <<")">>
    [] expr.op = "Or" ->
         <<"(">> \o QuotedWhenNeeded(expr.left) \o <<" ", "|", "|", " ">>
                 \o QuotedWhenNeeded(expr.right) \o <<")">>

\* C26: to_query_string emits a word of alphanumeric characters without quotes
\* (hello, ~(hello), (hello && world)) and wraps a word in double quotes exactly
\* when it holds a non-alphanumeric character.
C26_QuotesOnlyWhenNeeded ==
  (cl_expr # Nil /\ p_pc # "none") => p_query = QuotedWhenNeeded(cl_expr)

\* the shard lacks what request p did to it for keyword k: the posting it added is
\* missing, or the posting it removed is there
LacksEffect(shard, p, k) ==
  IF k \in KwSet(self_doc[p].keywords)
    THEN ~(shard.found /\ HasDoc(shard.docs, self_doc[p].uuid))
    ELSE shard.found /\ HasDoc(shard.docs, self_doc[p].uuid)

\* requests p and q, for two documents, both loaded the same shard of keyword k and
\* both have put their own copy of it back
RacedOn(p, q, k) ==
  /\ p # q
  /\ pc[p] = "shards" /\ pc[q] = "shards"
  /\ self_doc[p].uuid # self_doc[q].uuid
  /\ k \in DOMAIN futs[p] /\ k \in DOMAIN futs[q]
  /\ ShardKeyOf(p, k) = ShardKeyOf(q, k)
  /\ futs[p][k].st = "done" /\ futs[q][k].st = "done"
  /\ futs[p][k].base = futs[q][k].base
  /\ futs[p][k].local # futs[p][k].base
  /\ futs[q][k].local # futs[q][k].base

\* C27: two concurrent updates that touch the same (keyword, shard) and both read
\* the same baseline shard before either writes leave the copy of the last writer:
\* the shard lacks the effect of one of them (a posting that should have been
\* added is missing, or one that should have been removed is there).  The state
\* where both have completed, the shard lacks the effect of one and each document's
\* own keywords field reflects its update is reachable (C27_Witness).
C27_SameBaselineLosesOneUpdate ==
  \A p, q \in writers, k \in Keywords :
    RacedOn(p, q, k) =>
      /\ KvGet(kv, ShardKeyOf(p, k)) \in {futs[p][k].local, futs[q][k].local}
      /\ LacksEffect(KvGet(kv, ShardKeyOf(p, k)), p, k)
           \/ LacksEffect(KvGet(kv, ShardKeyOf(p, k)), q, k)

\* both updates have completed, both documents list keyword k, they share the
\* shard of k, and the shard holds only one of them
C27_Witness ==
  \E k \in Keywords :
    /\ Completed(1) /\ Completed(2)
    /\ self_doc[1].uuid # self_doc[2].uuid
    /\ ShardAt(k, self_doc[1].uuid) = ShardAt(k, self_doc[2].uuid)
    /\ shard_from_document_id(self_doc[1].uuid, n_shards)
         = shard_from_document_id(self_doc[2].uuid, n_shards)
    /\ \A p \in writers :
         /\ KvGet(kv, document_kv_key(self_doc[p].uuid)) = self_doc[p]
         /\ k \in KwSet(self_doc[p].keywords)
    /\ \E p \in writers : LacksEffect(ShardAt(k, self_doc[1].uuid), p, k)

\* C28: when an update of document D was cancelled after the document was
\* persisted and before all shard removals and adds were applied, the retry of the
\* same update end-to-end by the single writer (reload D, same body, run to
\* completion) restores keyword-doc consistency: every keyword of D.keywords has
\* D.id in its shard and no keyword dropped by the update still has D.id in its
\* shard.
C28_RetryRestoresConsistency ==
  \A p \in writers :
    (cancelled.found /\ cancelled.retried /\ pc[p] = "done") =>
      LET d == self_doc[p].uuid
      IN /\ self_doc[p].keywords = cancelled.keywords
         /\ \A k \in KwSet(self_doc[p].keywords) :
              ShardAt(k, d).found /\ HasDoc(ShardAt(k, d).docs, d)
         /\ \A k \in cancelled.dropped :
              ~(ShardAt(k, d).found /\ HasDoc(ShardAt(k, d).docs, d))

\* the keywords whose shard at shard_of(d) holds d
PostedUnder(d) == {k \in Keywords : ShardAt(k, d).found /\ HasDoc(ShardAt(k, d).docs, d)}

\* C29: after two overlapping updates of the same document D have both completed,
\* one further completed single-writer update of D restores keyword-doc
\* consistency for D: the set of keywords whose shard at shard_of(D.id) holds D.id
\* equals the keyword set of D.keywords.
C29_FurtherUpdateRestoresConsistency ==
  (BothCompleted /\ started = 1) =>
    PostedUnder("d1") = KwSet(KvGet(kv, document_kv_key("d1")).keywords)

\* the updates of d1 that had returned before the two overlapping ones: the one
\* ingestion, when the overlapping requests loaded keywords
UpdatesBefore == IF old_kw[1] = <<>> THEN 0 ELSE 1

\* C30: in any schedule of updates to one document, overlapping updates that each
\* loaded the document before the other persisted included, the persisted rev
\* after all of them have completed equals the number of updates that returned
\* successfully, and no two successful updates return the same revision number.
C30_RevCountsSuccessfulUpdates ==
  (BothCompleted /\ started = 0) =>
    /\ KvGet(kv, document_kv_key("d1")).revision = UpdatesBefore + Cardinality(writers)
    /\ \A p, q \in writers : p # q => self_doc[p].revision # self_doc[q].revision

\* the keyword shard keys of KV and what they hold
ShardsOf(store) == [key \in {x \in DOMAIN store : x[1] = "kw"} |-> store[key]]

\* C31: Document.update persists the document before it touches any keyword shard:
\* when the document put fails, update returns the error and no keyword shard is
\* read, created or written; and the shard removals have all completed before any
\* shard add starts.
C31_DocumentFirstThenRemovalsThenAdds ==
  [][\A p \in writers :
       /\ (pc[p] = "update" /\ pc'[p] = "failed") =>
            /\ kv' = kv
            /\ futs'[p] = NoFutures
       /\ pc[p] = "failed" => (pc'[p] = "failed" /\ futs'[p] = NoFutures /\ kv' = kv)
       /\ (pc[p] = "update" /\ ShardsOf(kv') # ShardsOf(kv)) => FALSE
       /\ (pc[p] = "shards" /\ (futs'[p] # futs[p] \/ ShardsOf(kv') # ShardsOf(kv))) =>
            KvGet(kv, document_kv_key(self_doc[p].uuid)) = self_doc[p]
       /\ \A k \in DOMAIN futs[p] :
            (/\ pc'[p] = "shards"
             /\ futs[p][k].kind = "add"
             /\ futs[p][k].st = "init"
             /\ futs'[p][k].st # "init") => RemovalsDone(p)
    ]_vars

\* an update has removed the document from the shard of a dropped keyword and is
\* now adding it to the shard of a new one
C31_Witness ==
  \E p \in writers, k, r \in Keywords :
    /\ pc[p] = "shards"
    /\ k \in DOMAIN futs[p] /\ r \in DOMAIN futs[p]
    /\ futs[p][r].kind = "remove" /\ futs[p][r].st = "done"
    /\ futs[p][r].local # futs[p][r].base
    /\ futs[p][k].kind = "add" /\ futs[p][k].st = "put"

\* the distinct keywords of the query
DistinctKeywords(ast) == Range(collect_keywords(ast))

\* C35: before the evaluation of the AST starts, the keyword cache holds an entry
\* for every Word that occurs in the AST, and the keyword merger has been called
\* exactly once per distinct keyword of the query, also when the same word occurs
\* several times.
C35_CacheCompleteOneMergePerKeyword ==
  q_pc = "loaded" =>
    /\ \A w \in DistinctKeywords(q_ast) : w \in DOMAIN kw_cache
    /\ Len(q_calls) = Cardinality(DistinctKeywords(q_ast))
    /\ Range(q_calls) = DistinctKeywords(q_ast)

\* document d has a posting in its shard of keyword k
Posted(store, k, d) ==
  LET shard == KvGet(store, keyword_shard_kv_key(k, shard_from_document_id(d, n_shards)))
  IN shard.found /\ HasDoc(shard.docs, d)

\* the score of that posting
PostingScore(store, k, d) ==
  ScoreOf(KvGet(store, keyword_shard_kv_key(k, shard_from_document_id(d, n_shards))).docs, d)

\* C32: the posting of D under keyword k carries the score written when D was
\* added under k for as long as it exists: after an update of D in which k is
\* present before and after, with a different extracted score or not, the posting
\* is the one written first while D.keywords carries the new score, and a later
\* search on k reports the score of the posting for D.
C32_SurvivingScoresAreFrozen ==
  [][\A k \in Keywords, d \in Docs :
       /\ (Posted(kv, k, d) /\ Posted(kv', k, d)) =>
            PostingScore(kv', k, d) = PostingScore(kv, k, d)
       /\ (~Posted(kv, k, d) /\ Posted(kv', k, d)) =>
            \E p \in writers :
              /\ self_doc[p].uuid = d
              /\ PostingScore(kv', k, d) = ScoreOf(self_doc[p].keywords, k)
       /\ \A p \in writers :
            (/\ pc[p] = "shards" /\ pc'[p] = "done"
             /\ self_doc[p].uuid = d
             /\ k \in KwSet(old_kw[p]) \cap KwSet(self_doc[p].keywords)) =>
               /\ Posted(kv', k, d)
               /\ KvGet(kv', document_kv_key(d)).keywords = self_doc[p].keywords
       /\ (q_pc = "loaded" /\ q_pc' = "done" /\ q_ast = Word(k) /\ Posted(kv, k, d)) =>
            \E i \in 1..Len(q_rows') :
              /\ q_rows'[i].doc_id = d
              /\ q_rows'[i].keywords = <<<<k, PostingScore(kv, k, d)>>>>
              /\ q_rows'[i].score
                   = score_collective_keywords(<<<<k, PostingScore(kv, k, d)>>>>)
    ]_vars

\* a search on k has run after the second update of a document that kept k with
\* another score: the document carries the new score and the search reports the
\* old one
C32_Witness ==
  \E k \in Keywords, d \in Docs :
    /\ q_pc = "done"
    /\ q_ast = Word(k)
    /\ KvGet(kv, document_kv_key(d)).found
    /\ KvGet(kv, document_kv_key(d)).revision = 2
    /\ k \in KwSet(KvGet(kv, document_kv_key(d)).keywords)
    /\ \E i \in 1..Len(q_rows) :
         /\ q_rows[i].doc_id = d
         /\ q_rows[i].keywords # <<<<k, ScoreOf(KvGet(kv, document_kv_key(d)).keywords, k)>>>>
         /\ q_rows[i].keywords = <<<<k, PostingScore(kv, k, d)>>>>

\* C33: deleting a document removes only the key <index>:document:<id>: every
\* keyword shard is left unchanged, so after the delete the document's id is still
\* returned by merge_keyword_shards and by the searches for each keyword it had.
C33_DeleteLeavesThePostings ==
  [][\A d \in Docs :
       /\ (KvGet(kv, document_kv_key(d)).found /\ ~KvGet(kv', document_kv_key(d)).found) =>
            /\ DOMAIN kv' = DOMAIN kv \ {document_kv_key(d)}
            /\ \A key \in DOMAIN kv' : kv'[key] = kv[key]
            /\ \A k \in Keywords :
                 merge_keyword_shards(kv', k) = merge_keyword_shards(kv, k)
       /\ \A k \in Keywords :
            (q_pc = "loaded" /\ q_pc' = "done" /\ q_ast = Word(k) /\ Posted(kv, k, d)) =>
               /\ \E i \in 1..Len(merge_keyword_shards(kv, k).merged) :
                    merge_keyword_shards(kv, k).merged[i][1] = d
               /\ \E i \in 1..Len(q_rows') : q_rows'[i].doc_id = d
    ]_vars

\* a search on a keyword of a deleted document has returned the document's id
C33_Witness ==
  \E k \in Keywords, d \in Docs :
    /\ q_pc = "done"
    /\ q_ast = Word(k)
    /\ ~KvGet(kv, document_kv_key(d)).found
    /\ \E i \in 1..Len(q_rows) : q_rows[i].doc_id = d

\* C34: with N_SHARDS fixed, in every reachable state every posting (d, s) stored
\* in the shard at key <index>:kw:<k>:<n> satisfies shard_of(d) = n, with
\* shard_of(d) in [0, N_SHARDS), and the shard's own keyword and shard fields equal
\* the components of its key (the index is the one index of the model).
C34_PostingsLiveInTheShardOfTheirDocument ==
  \A key \in DOMAIN kv :
    key[1] = "kw" =>
      /\ kv[key].keyword = key[2]
      /\ kv[key].shard = key[3]
      /\ key[3] \in 0..(n_shards - 1)
      /\ \A i \in 1..Len(kv[key].docs) :
           /\ shard_from_document_id(kv[key].docs[i][1], n_shards) = key[3]
           /\ shard_from_document_id(kv[key].docs[i][1], n_shards) \in 0..(n_shards - 1)

\* one keyword has postings in two shards, each holding the document that hashes
\* to it
C34_Witness ==
  \E k \in Keywords :
    /\ shard_from_document_id("d1", n_shards) # shard_from_document_id("d2", n_shards)
    /\ Posted(kv, k, "d1")
    /\ Posted(kv, k, "d2")

\* request p is an add: it holds the new document at rev 0 before its put, at rev 1
\* after it (an update of a stored document starts at rev 1 or more)
IsAdd(p, doc, rev) == p \in writers /\ doc.found /\ doc.revision = rev

\* C36: POST /:index/doc/:id never overwrites an existing document: when a document
\* with that id exists the request fails and the stored document and all keyword
\* shards are unchanged, and in any interleaving of concurrent add requests for the
\* same id at most one succeeds.
C36_AddNeverOverwrites ==
  [][/\ \A p \in writers :
          /\ (pc[p] # "rejected" /\ pc'[p] = "rejected") => kv' = kv
          /\ (pc[p] = "update" /\ pc'[p] = "shards" /\ IsAdd(p, self_doc[p], 0)) =>
               ~KvGet(kv, document_kv_key(self_doc[p].uuid)).found
     /\ \A p, q \in writers :
          (/\ p # q
           /\ pc'[p] = "done" /\ IsAdd(p, self_doc'[p], 1)
           /\ pc'[q] = "done" /\ IsAdd(q, self_doc'[q], 1)) =>
             self_doc'[p].uuid # self_doc'[q].uuid
    ]_vars

\* the shard keys written for keyword k
WrittenFor(k) == {key \in DOMAIN kv : key[1] = "kw" /\ key[2] = k}

\* C37: for every keyword string k that the ingest path writes postings under,
\* looking k up at query time lists exactly the shard keys that were written for k:
\* the URL-decoding applied before the listing maps k to itself for every keyword
\* the extractor can emit, keywords that hold +, %, & or = included.
C37_LookupFindsWhatIngestWrote ==
  \A k \in IngestKeywords :
    (q_pc \in {"loaded", "done"} /\ q_ast = Word(k)) =>
      /\ url_decode(Ascii(k)) = Ascii(k)
      /\ Range(list_prefix(kv, k)) = WrittenFor(k)
      /\ kw_cache[k] = FlatMapDocs([i \in 1..Len(list_prefix(kv, k)) |->
                                      kv[list_prefix(kv, k)[i]]])

\* the frames of the buffer from pos on: all whole, or the last one cut (fewer
\* than 4 length bytes, or fewer payload bytes than the declared length)
RECURSIVE LastFrameCut(_, _)
LastFrameCut(data, pos) ==
  IF pos = Len(data) THEN FALSE
  ELSE IF Len(data) - pos < 4 THEN TRUE
  ELSE LET size == from_le_bytes(SubSeq(data, pos + 1, pos + 4))
       IN IF Len(data) - pos < 4 + size THEN TRUE
          ELSE LastFrameCut(data, pos + 4 + size)

\* the state of the loop of read_length_prefixed after k turns
AfterTurns(data, k) == ReadLoop(data, [pos |-> 0, results |-> <<>>, panic |-> FALSE], k)

\* C38: for every byte buffer read_length_prefixed terminates (every turn of the
\* loop moves the read position forward by 4 bytes at least), and a buffer whose
\* last frame is cut short (fewer than 4 length bytes, or fewer payload bytes than
\* the declared length) ends in an error and is never decoded into a shorter or
\* altered list of records.
C38_DecoderTerminatesAndRejectsTruncation ==
  /\ c_pc \in {"decode", "done"} =>
       /\ \A k \in 0..(Len(c_buf) \div 4) :
            LET st == AfterTurns(c_buf, k)
                next == ReadStep(c_buf, st)
            IN \/ st.panic
               \/ ~(st.pos < Len(c_buf))
               \/ next.panic
               \/ next.pos >= st.pos + 4
       /\ LET end == AfterTurns(c_buf, Len(c_buf) \div 4 + 1)
          IN end.panic \/ ~(end.pos < Len(c_buf))
  /\ (c_pc = "done" /\ LastFrameCut(c_buf, 0)) => c_out = Panicked

\* a buffer of one whole frame and a cut second one has been read
C38_Witness ==
  /\ c_pc = "done"
  /\ Len(c_xs) >= 2
  /\ Len(c_buf) > 8
  /\ ~LastFrameCut(SubSeq(c_buf, 1, 8), 0)
  /\ LastFrameCut(c_buf, 0)
  /\ c_out = Panicked

====
